---- MODULE Spec2Model ----
(***************************************************************************)
(* Conway's Game of Life over a sparse set of signed-integer cells, with   *)
(* the three simulation engines of the repository (hashtable, sorted       *)
(* vector, hashlife) and the benchmark driver verify_correctness that runs *)
(* one game per engine from the same initial cells.                        *)
(*                                                                         *)
(* Coordinates are two's-complement integers of IntBits bits; the program  *)
(* uses int64_t, the model keeps the same arithmetic at a smaller width.   *)
(***************************************************************************)
EXTENDS Integers, Sequences, FiniteSets, TLC

\* ------------------------------------------------------------------ bounds
IntBits  == 10      \* width of the coordinate type in the model
MaxCells == 3       \* cells of the near pattern of an initial alive-set
MaxTicks == 2       \* largest tick count handed to verify_correctness

\* ------------------------------------------------------ integer arithmetic
RECURSIVE Pow2(_)
Pow2(n) == IF n = 0 THEN 1 ELSE 2 * Pow2(n - 1)

MinVal == -Pow2(IntBits - 1)
MaxVal == Pow2(IntBits - 1) - 1

\* a result of signed arithmetic that the type cannot hold
Overflows(v) == v < MinVal \/ v > MaxVal
\* the value a wrapping build stores for the mathematical result v
Wrap(v) == ((v - MinVal) % Pow2(IntBits)) + MinVal
\* C++ integer division (truncation toward zero), b > 0
TruncDiv(a, b) == IF a >= 0 THEN a \div b ELSE -((-a) \div b)

Max2(a, b) == IF a > b THEN a ELSE b
\* Statement order.  A definition of a LET is evaluated where it is first
\* used; InOrder(stage, rest) uses the value of stage and then yields rest,
\* so that a stage is complete before the next one starts, as in the code.
InOrder(stage, rest) == IF Len(<< stage >>) = 1 THEN rest ELSE rest

Min2(a, b) == IF a < b THEN a ELSE b

\* ------------------------------------------------------------------- cells
\* a Cell is <<x, y>>
Cell(x, y) == <<x, y>>
X(c) == c[1]
Y(c) == c[2]

would_overflow(x, y) == x = MinVal \/ x = MaxVal \/ y = MinVal \/ y = MaxVal

get_neighbors_two_away(x, y) ==
    << Cell(x - 2, y - 2), Cell(x, y - 2), Cell(x + 2, y - 2),
       Cell(x - 2, y),                     Cell(x + 2, y),
       Cell(x - 2, y + 2), Cell(x, y + 2), Cell(x + 2, y + 2) >>

\* the eight neighbour coordinates, in the order the engines emit them
get_neighbors(x, y) ==
    << Cell(x - 1, y - 1), Cell(x, y - 1), Cell(x + 1, y - 1),
       Cell(x - 1, y),                     Cell(x + 1, y),
       Cell(x - 1, y + 1), Cell(x, y + 1), Cell(x + 1, y + 1) >>

cell_less(a, b) == IF X(a) # X(b) THEN X(a) < X(b) ELSE Y(a) < Y(b)

SeqToSet(s) == { s[i] : i \in 1..Len(s) }

\* std::sort with cell_less: the ascending arrangement of the elements of s.
\* Element c fills the positions after the elements less than c, up to the
\* number of elements not greater than c.
SortCells(s) ==
    LET n     == Len(s)
        ranks == { << c, Cardinality({ i \in 1..n : cell_less(s[i], c) }),
                         Cardinality({ i \in 1..n : ~cell_less(c, s[i]) }) >>
                   : c \in SeqToSet(s) }
    IN  SubSeq([ k \in 1..n |-> (CHOOSE r \in ranks : r[2] < k /\ k <= r[3])[1] ], 1, n)

\* the ascending listing of a cell set
RECURSIVE SetToSortedSeq(_)
SetToSortedSeq(S) ==
    IF S = {} THEN << >>
    ELSE LET m == CHOOSE c \in S : \A d \in S : d = c \/ cell_less(c, d)
         IN  << m >> \o SetToSortedSeq(S \ {m})

Reverse(s) == [ i \in 1..Len(s) |-> s[Len(s) + 1 - i] ]

\* the iteration orders of an unordered set that the model explores:
\* ascending and descending
IterOrders(S) ==
    IF S = {} THEN { << >> }
    ELSE LET a == SetToSortedSeq(S)
         IN  { a, Reverse(a) }

\* ------------------------------------------------------- hashtable engine
EmptyMap == << >>

\* an increment that stores 1 whatever was counted before
IncCount_to_one(m, c) == IF c \in DOMAIN m THEN [ m EXCEPT ![c] = 1 ]
                         ELSE (c :> 1) @@ m

\* ++neighbor_count_buffer_[c]
IncCount(m, c) == IF c \in DOMAIN m THEN [ m EXCEPT ![c] = @ + 1 ]
                  ELSE (c :> 1) @@ m

RECURSIVE IncAll(_, _, _)
IncAll(m, ns, i) == IF i > Len(ns) THEN m
                    ELSE LET m1 == IncCount(m, ns[i])
                         IN  InOrder(m1, IncAll(m1, ns, i + 1))

\* the scan loop over the first k cells of the iteration order
RECURSIVE HashtableScan(_, _, _)
HashtableScan(ord, k, m) ==
    IF k = 0 THEN m
    ELSE LET prev == HashtableScan(ord, k - 1, m)
             c    == ord[k]
         IN  InOrder(prev, IF would_overflow(X(c), Y(c)) THEN prev
                           ELSE IncAll(prev, get_neighbors(X(c), Y(c)), 1))

\* a scan that starts without neighbor_count_buffer_.clear()
KeepCounts(m) == m

\* neighbor_count_buffer_.clear()
ClearCounts(m) == EmptyMap
\* clear() of a cell set and of a cell vector
ClearCells(S) == {}
ClearVector(v) == << >>

\* a second loop that lets an alive cell with one neighbour stay
HashtableSelect_one_suffices(m, cells) ==
    { c \in DOMAIN m : m[c] = 3 \/ (m[c] \in { 1, 2 } /\ c \in cells) }

\* a second loop that inserts the cells with three neighbours only
HashtableSelect_births_only(m, cells) == { c \in DOMAIN m : m[c] = 3 }

\* the cells the second loop inserts into new_cells_buffer_
HashtableSelect(m, cells) ==
    { c \in DOMAIN m : m[c] = 3 \/ (m[c] = 2 /\ c \in cells) }

\* one tick: the engine's two buffers and the caller's set after the call
HashtableEngine_tick(ord, cells, counts, newbuf) ==
    LET m   == HashtableScan(ord, Len(ord), ClearCounts(counts))
        out == ClearCells(newbuf) \cup HashtableSelect(m, cells)
    IN  [ cells |-> out, neighbor_count_buffer_ |-> m, new_cells_buffer_ |-> cells ]

\* --------------------------------------------------- sorted vector engine
\* step 2 without the would_overflow test: eight candidates for every cell
RECURSIVE EmitCandidatesUnguarded(_, _)
EmitCandidatesUnguarded(alive, i) ==
    IF i > Len(alive) THEN << >>
    ELSE get_neighbors(X(alive[i]), Y(alive[i])) \o EmitCandidatesUnguarded(alive, i + 1)

\* step 2: eight candidates for every cell that is not at a limit
RECURSIVE EmitCandidates(_, _)
EmitCandidates(alive, i) ==
    IF i > Len(alive) THEN << >>
    ELSE LET c == alive[i]
         IN  IF would_overflow(X(c), Y(c)) THEN EmitCandidates(alive, i + 1)
             ELSE get_neighbors(X(c), Y(c)) \o EmitCandidates(alive, i + 1)

\* length of the run of cells equal to cands[i] that starts at i
RECURSIVE RunLength(_, _, _)
RunLength(cands, i, count) ==
    IF i + count <= Len(cands) /\ cands[i + count] = cands[i]
    THEN RunLength(cands, i, count + 1)
    ELSE count

\* std::binary_search over a sequence sorted by cell_less
RECURSIVE LowerBound(_, _, _, _)
LowerBound(s, c, lo, hi) ==
    IF lo >= hi THEN lo
    ELSE LET mid == (lo + hi) \div 2
         IN  IF cell_less(s[mid], c) THEN LowerBound(s, c, mid + 1, hi)
             ELSE LowerBound(s, c, lo, mid)

binary_search(s, c) ==
    LET i == LowerBound(s, c, 1, Len(s) + 1)
    IN  i <= Len(s) /\ ~cell_less(c, s[i])

\* the ascending listing of a set of indices
RECURSIVE IndexSeq(_)
IndexSeq(I) ==
    IF I = {} THEN << >>
    ELSE LET m == CHOOSE a \in I : \A b \in I : a <= b
         IN  << m >> \o IndexSeq(I \ {m})

\* a walk that keeps the alive cells with two neighbours only
SortedWalk_survivors_only(cands, alive) ==
    LET starts == { i \in 1..Len(cands) : i = 1 \/ cands[i] # cands[i - 1] }
        kept   == IndexSeq({ i \in starts : /\ RunLength(cands, i, 1) = 2
                                            /\ binary_search(alive, cands[i]) })
    IN  [ k \in 1..Len(kept) |-> cands[kept[k]] ]

\* steps 4 and 5: the cells inserted, in insertion order.  The outer loop
\* stands at the first index of every run of equal candidates.
SortedWalk(cands, alive) ==
    LET starts == { i \in 1..Len(cands) : i = 1 \/ cands[i] # cands[i - 1] }
        keep(i) == LET count == RunLength(cands, i, 1)
                   IN  count = 3 \/ (count = 2 /\ binary_search(alive, cands[i]))
        kept   == IndexSeq({ i \in starts : keep(i) })
    IN  [ k \in 1..Len(kept) |-> cands[kept[k]] ]

\* one tick: the two vectors, the cells inserted (in order) and the set
SortedVectorEngine_tick(ord, cells, alive0, cands0) ==
    LET alive == SortCells(ClearVector(alive0) \o ord)
        cands == SortCells(ClearVector(cands0) \o EmitCandidates(alive, 1))
        ins   == SortedWalk(cands, alive)
    IN  InOrder(<< alive, cands, ins >>,
                [ cells |-> ClearCells(cells) \cup SeqToSet(ins), sorted_alive_ |-> alive,
                  candidates_ |-> cands, inserted |-> ins ])

\* ---------------------------------------------------- hashlife: NodePool
\* A QuadNode pointer is an index into the arena; 0 is nullptr.
\* The pool record also carries ub: a signed overflow happened in this call.
NullNode == 0

\* slow_step_calls and step1_writes are no members of the struct: they count
\* the calls of slow_step on the node and the assignments to step1_result
QuadNode(level, pop, nw, ne, sw, se) ==
    [ level |-> level, population |-> pop, nw |-> nw, ne |-> ne,
      sw |-> sw, se |-> se, step1_result |-> NullNode,
      slow_step_calls |-> 0, step1_writes |-> 0 ]

\* alloc_raw: the next free slot of the arena
alloc_raw(p, level, pop, nw, ne, sw, se) ==
    [ p |-> [ p EXCEPT !.nodes = Append(@, QuadNode(level, pop, nw, ne, sw, se)) ],
      n |-> Len(p.nodes) + 1 ]

\* NodePool::NodePool: an arena that holds the two leaves
NodePool_new ==
    LET e  == [ nodes |-> << >>, canon_ |-> << >>, empty_cache_ |-> << >>,
                dead_cell_ |-> NullNode, alive_cell_ |-> NullNode, ub |-> FALSE ]
        a1 == alloc_raw(e, 0, 0, NullNode, NullNode, NullNode, NullNode)
        a2 == alloc_raw(a1.p, 0, 1, NullNode, NullNode, NullNode, NullNode)
    IN  [ a2.p EXCEPT !.dead_cell_ = a1.n, !.alive_cell_ = a2.n ]

\* a clear that drops nothing
NodePool_clear_nothing(p) == p

\* a clear that leaves the table as it is
NodePool_clear_keeping_canon(p) ==
    LET e  == [ p EXCEPT !.nodes = << >>, !.empty_cache_ = << >> ]
        a1 == alloc_raw(e, 0, 0, NullNode, NullNode, NullNode, NullNode)
        a2 == alloc_raw(a1.p, 0, 1, NullNode, NullNode, NullNode, NullNode)
    IN  [ a2.p EXCEPT !.dead_cell_ = a1.n, !.alive_cell_ = a2.n ]

\* NodePool::clear: drop the arena, the table and the cache, make the leaves
NodePool_clear(p) ==
    LET e  == [ p EXCEPT !.nodes = << >>, !.canon_ = << >>, !.empty_cache_ = << >> ]
        a1 == alloc_raw(e, 0, 0, NullNode, NullNode, NullNode, NullNode)
        a2 == alloc_raw(a1.p, 0, 1, NullNode, NullNode, NullNode, NullNode)
    IN  [ a2.p EXCEPT !.dead_cell_ = a1.n, !.alive_cell_ = a2.n ]

NodePool_leaf(p, alive) == IF alive THEN p.alive_cell_ ELSE p.dead_cell_

QuadNodeKey(nw, ne, sw, se) == << nw, ne, sw, se >>

\* a make that allocates without looking the children up
NodePool_make_unshared(p, nw, ne, sw, se) ==
    LET level == p.nodes[nw].level + 1
        pop   == p.nodes[nw].population + p.nodes[ne].population
                 + p.nodes[sw].population + p.nodes[se].population
        a     == alloc_raw(p, level, pop, nw, ne, sw, se)
    IN  [ p |-> [ a.p EXCEPT !.canon_ = (QuadNodeKey(nw, ne, sw, se) :> a.n) @@ @ ],
          n |-> a.n ]

\* a make that takes the population of the node from its nw child alone
NodePool_make_population_of_nw(p, nw, ne, sw, se) ==
    LET key == QuadNodeKey(nw, ne, sw, se)
    IN  IF key \in DOMAIN p.canon_
        THEN [ p |-> p, n |-> p.canon_[key] ]
        ELSE LET a == alloc_raw(p, p.nodes[nw].level + 1, p.nodes[nw].population,
                                nw, ne, sw, se)
             IN  [ p |-> [ a.p EXCEPT !.canon_ = (key :> a.n) @@ @ ],
                   n |-> a.n ]

\* NodePool::make: the canonical node with these four children
NodePool_make(p, nw, ne, sw, se) ==
    LET key == QuadNodeKey(nw, ne, sw, se)
    IN  IF key \in DOMAIN p.canon_
        THEN [ p |-> p, n |-> p.canon_[key] ]
        ELSE LET level == p.nodes[nw].level + 1
                 pop   == p.nodes[nw].population + p.nodes[ne].population
                          + p.nodes[sw].population + p.nodes[se].population
                 a     == alloc_raw(p, level, pop, nw, ne, sw, se)
             IN  [ p |-> [ a.p EXCEPT !.canon_ = (key :> a.n) @@ @ ],
                   n |-> a.n ]

\* empty_cache_ is indexed by level; slot level is element level + 1
CacheSize(p) == Len(p.empty_cache_)
CacheResize(c, n) == [ i \in 1..n |-> IF i <= Len(c) THEN c[i] ELSE NullNode ]

\* empty_cache_[level] = m; return it
CacheEmpty(level, m) == [ p |-> [ m.p EXCEPT !.empty_cache_[level + 1] = m.n ], n |-> m.n ]

\* pool_.make(sub, sub, sub, sub)
MakeUniform(sub) == NodePool_make(sub.p, sub.n, sub.n, sub.n, sub.n)

RECURSIVE NodePool_empty_node(_, _)
NodePool_empty_node(p, level) ==
    IF level = 0 THEN [ p |-> p, n |-> p.dead_cell_ ]
    ELSE IF level < CacheSize(p) /\ p.empty_cache_[level + 1] # NullNode
    THEN [ p |-> p, n |-> p.empty_cache_[level + 1] ]
    ELSE LET sub == NodePool_empty_node(
                        IF level >= CacheSize(p)
                        THEN [ p EXCEPT !.empty_cache_ = CacheResize(@, level + 1) ]
                        ELSE p,
                        level - 1)
         IN  InOrder(sub, CacheEmpty(level, MakeUniform(sub)))

\* A sequence of calls that each return a node: st.p is the pool after the
\* calls made so far and st.out the nodes they returned, in order.
Calls(p) == [ p |-> p, out |-> << >> ]
Push(st, m) == [ p |-> m.p, out |-> Append(st.out, m.n) ]

\* pool_.make on each of the keys in turn
RECURSIVE MakeEach(_, _)
MakeEach(st, keys) ==
    IF Len(st.out) = Len(keys) THEN st
    ELSE MakeEach(Push(st, NodePool_make(st.p, keys[Len(st.out) + 1][1],
                                               keys[Len(st.out) + 1][2],
                                               keys[Len(st.out) + 1][3],
                                               keys[Len(st.out) + 1][4])), keys)

\* pool_.make of the four nodes returned by the calls
MakeOut(st) == NodePool_make(st.p, st.out[1], st.out[2], st.out[3], st.out[4])

\* ------------------------------------------------- hashlife: SortedCells
SortedCells_build(ord) == SortCells(ord)

\* std::lower_bound on x alone: first index whose x is >= x
RECURSIVE LowerBoundX(_, _, _, _)
LowerBoundX(s, x, lo, hi) ==
    IF lo >= hi THEN lo
    ELSE LET mid == (lo + hi) \div 2
         IN  IF X(s[mid]) < x THEN LowerBoundX(s, x, mid + 1, hi)
             ELSE LowerBoundX(s, x, lo, mid)

RECURSIVE ScanRegion(_, _, _, _, _)
ScanRegion(s, it, x_end, y, y_end) ==
    IF it > Len(s) \/ ~(X(s[it]) < x_end) THEN FALSE
    ELSE IF Y(s[it]) >= y /\ Y(s[it]) < y_end THEN TRUE
    ELSE ScanRegion(s, it + 1, x_end, y, y_end)

\* has_cell_in: is a cell in [x, x+size) x [y, y+size); x+size and y+size
\* are computed in the coordinate type
has_cell_in(s, x, y, size) ==
    [ found |-> ScanRegion(s, LowerBoundX(s, x, 1, Len(s) + 1),
                           Wrap(x + size), y, Wrap(y + size)),
      ub    |-> Overflows(x + size) \/ Overflows(y + size) ]

SortedCells_contains(s, x, y) == binary_search(s, Cell(x, y))

\* ------------------------------------------------ hashlife: the quadtree
\* int64_t(1) << k
Shl1(k) == Pow2(k)

\* the four quadrants of the expanded node: the children of nd, each in the
\* corner of an empty square that faces the centre
ExpandKeys(e, nd) ==
    << << e, e, e, nd.nw >>, << e, e, nd.ne, e >>,
       << e, nd.sw, e, e >>, << nd.se, e, e, e >> >>

ExpandQuadrants(e, nd) == MakeEach(Calls(e.p), ExpandKeys(e.n, nd))

\* an expand that leaves the origin where it was
MoveOrigin_stays(r, ox, oy, half) == [ p |-> r.p, n |-> r.n, ox |-> ox, oy |-> oy ]

\* ox -= half; oy -= half
MoveOrigin(r, ox, oy, half) ==
    [ p  |-> [ r.p EXCEPT !.ub = @ \/ Overflows(ox - half) \/ Overflows(oy - half) ],
      n  |-> r.n,
      ox |-> Wrap(ox - half),
      oy |-> Wrap(oy - half) ]

\* expand: wrap the node in an all-dead border; the origin moves by half.
\* t is the pool, the root and the origin; so is the value.
HashLifeEngine_expand(t) ==
    LET nd == t.p.nodes[t.n]
        e  == NodePool_empty_node(t.p, nd.level - 1)
    IN  InOrder(e, MoveOrigin(MakeOut(ExpandQuadrants(e, nd)),
                              t.ox, t.oy, Shl1(nd.level - 1)))

\* build_recursive: the tree of the square of side 2^level at (x, y)
RECURSIVE HashLifeEngine_build_recursive(_, _, _, _, _)
HashLifeEngine_build_recursive(p, sorted, x, y, level) ==
    LET size == Shl1(level)
        h    == has_cell_in(sorted, x, y, size)
        p0   == [ p EXCEPT !.ub = @ \/ h.ub ]
    IN  IF ~h.found THEN NodePool_empty_node(p0, level)
        ELSE IF level = 0
        THEN [ p |-> p0, n |-> NodePool_leaf(p0, SortedCells_contains(sorted, x, y)) ]
        ELSE LET half == size \div 2
                 p1   == [ p0 EXCEPT !.ub = @ \/ Overflows(x + half) \/ Overflows(y + half) ]
                 xh   == Wrap(x + half)
                 yh   == Wrap(y + half)
                 a    == HashLifeEngine_build_recursive(p1,  sorted, x,  y,  level - 1)
                 b    == HashLifeEngine_build_recursive(a.p, sorted, xh, y,  level - 1)
                 c    == HashLifeEngine_build_recursive(b.p, sorted, x,  yh, level - 1)
                 d    == HashLifeEngine_build_recursive(c.p, sorted, xh, yh, level - 1)
             IN  InOrder(<< a, b, c, d >>, NodePool_make(d.p, a.n, b.n, c.n, d.n))

\* center: the middle square of a node, one level down, no simulation
HashLifeEngine_center(p, node) ==
    LET nd == p.nodes[node]
    IN  NodePool_make(p, p.nodes[nd.nw].se, p.nodes[nd.ne].sw,
                         p.nodes[nd.sw].ne, p.nodes[nd.se].nw)

\* a step of a level 2 node that takes its centre as it is
HashLifeEngine_step_4x4_unstepped(p, node) == HashLifeEngine_center(p, node)

\* the 4x4 grid of a level 2 node, g[cx][cy] with cx, cy in 0..3
Grid4x4(p, node) ==
    LET nd == p.nodes[node]
        q(quad, sub) == p.nodes[p.nodes[quad][sub]].population
    IN  [ cx \in 0..3 |-> [ cy \in 0..3 |->
            LET quad == IF cy < 2 THEN (IF cx < 2 THEN nd.nw ELSE nd.ne)
                        ELSE (IF cx < 2 THEN nd.sw ELSE nd.se)
                sub  == IF cy % 2 = 0 THEN (IF cx % 2 = 0 THEN "nw" ELSE "ne")
                        ELSE (IF cx % 2 = 0 THEN "sw" ELSE "se")
            IN  q(quad, sub) ] ]

SumSeq3(f) == f[-1] + f[0] + f[1]

\* a rule under which a cell with two neighbours never stays alive
life_rule_births_only(g, cx, cy) ==
    3 = SumSeq3([ dy \in -1..1 |-> SumSeq3([ dx \in -1..1 |->
            IF dx = 0 /\ dy = 0 THEN 0 ELSE g[cx + dx][cy + dy] ]) ])

\* the rule of step_4x4 for the cell (cx, cy) of the grid
life_rule(g, cx, cy) ==
    LET count == SumSeq3([ dy \in -1..1 |-> SumSeq3([ dx \in -1..1 |->
                     IF dx = 0 /\ dy = 0 THEN 0 ELSE g[cx + dx][cy + dy] ]) ])
        alive == g[cx][cy] # 0
    IN  count = 3 \/ (count = 2 /\ alive)

\* step_4x4: the centre 2x2 of a level 2 node, one generation on
HashLifeEngine_step_4x4(p, node) ==
    LET g == Grid4x4(p, node)
    IN  NodePool_make(p, NodePool_leaf(p, life_rule(g, 1, 1)),
                         NodePool_leaf(p, life_rule(g, 2, 1)),
                         NodePool_leaf(p, life_rule(g, 1, 2)),
                         NodePool_leaf(p, life_rule(g, 2, 2)))

\* node->step1_result = r
SetStep1(p, node, r) ==
    [ p EXCEPT !.nodes[node].step1_result = r, !.nodes[node].step1_writes = @ + 1 ]

\* node->step1_result = r; return it
Memoize(node, r) == [ p |-> SetStep1(r.p, node, r.n), n |-> r.n ]

\* the children of the squares c01, c10, c11, c12, c21 that lie across the
\* borders of the quadrants of nd
OverlapKeys(p, nd) ==
    LET n00 == p.nodes[nd.nw]
        n01 == p.nodes[nd.ne]
        n10 == p.nodes[nd.sw]
        n11 == p.nodes[nd.se]
    IN  << << n00.ne, n01.nw, n00.se, n01.sw >>,
           << n00.sw, n00.se, n10.nw, n10.ne >>,
           << n00.se, n01.sw, n10.ne, n11.nw >>,
           << n01.sw, n01.se, n11.nw, n11.ne >>,
           << n10.ne, n11.nw, n10.se, n11.sw >> >>

\* the nodes whose centres are r00, r01, r02, r10, r11, r12, r20, r21, r22
CenterSources(nd, c) ==
    << nd.nw, c[1], nd.ne, c[2], c[3], c[4], nd.sw, c[5], nd.se >>

\* center on each of the nodes in turn
RECURSIVE CenterEach(_, _)
CenterEach(st, srcs) ==
    IF Len(st.out) = Len(srcs) THEN st
    ELSE CenterEach(Push(st, HashLifeEngine_center(st.p, srcs[Len(st.out) + 1])), srcs)

Centers(c, nd) == CenterEach(Calls(c.p), CenterSources(nd, c.out))

\* the four quadrants assembled from the nine centres
QuadrantKeys(r) ==
    << << r[1], r[2], r[4], r[5] >>, << r[2], r[3], r[5], r[6] >>,
       << r[4], r[5], r[7], r[8] >>, << r[5], r[6], r[8], r[9] >> >>

\* pool_.make of the four nodes of a key
MakeKey(p, key) == NodePool_make(p, key[1], key[2], key[3], key[4])

\* pool_.make of the four stepped quadrants
Assemble(s1, s2, s3, s4) == NodePool_make(s4.p, s1.n, s2.n, s3.n, s4.n)

\* a slow_step that never finds a result on the node
HasStep1_never(nd) == FALSE

\* if (node->step1_result)
HasStep1(nd) == nd.step1_result # NullNode

\* slow_step is entered for the node call.n
Entered(call) ==
    [ p |-> [ call.p EXCEPT !.nodes[call.n].slow_step_calls = @ + 1 ], n |-> call.n ]

\* slow_step: the centre of the node call.n advanced by one generation, memoized
RECURSIVE HashLifeEngine_slow_step(_)
HashLifeEngine_slow_step(call) ==
    LET x  == Entered(call)
        nd == x.p.nodes[x.n]
    IN  IF HasStep1(nd) THEN [ p |-> x.p, n |-> nd.step1_result ]
        ELSE IF nd.population = 0
        THEN Memoize(x.n, NodePool_empty_node(x.p, nd.level - 1))
        ELSE IF nd.level = 2
        THEN Memoize(x.n, HashLifeEngine_step_4x4(x.p, x.n))
        ELSE LET r  == Centers(MakeEach(Calls(x.p), OverlapKeys(x.p, nd)), nd)
                 q  == QuadrantKeys(r.out)
                 s1 == HashLifeEngine_slow_step(MakeKey(r.p,  q[1]))
                 s2 == HashLifeEngine_slow_step(MakeKey(s1.p, q[2]))
                 s3 == HashLifeEngine_slow_step(MakeKey(s2.p, q[3]))
                 s4 == HashLifeEngine_slow_step(MakeKey(s3.p, q[4]))
             IN  InOrder(<< r, s1, s2, s3 >>, Memoize(x.n, Assemble(s1, s2, s3, s4)))

\* flatten: the alive leaves below node, placed with (x, y) as its corner
RECURSIVE HashLifeEngine_flatten(_, _, _, _)
HashLifeEngine_flatten(p, node, x, y) ==
    LET nd == p.nodes[node]
    IN  IF nd.population = 0 THEN [ cells |-> {}, ub |-> FALSE ]
        ELSE IF nd.level = 0 THEN [ cells |-> { Cell(x, y) }, ub |-> FALSE ]
        ELSE LET half == Shl1(nd.level - 1)
                 xh   == Wrap(x + half)
                 yh   == Wrap(y + half)
                 a    == HashLifeEngine_flatten(p, nd.nw, x,  y)
                 b    == HashLifeEngine_flatten(p, nd.ne, xh, y)
                 c    == HashLifeEngine_flatten(p, nd.sw, x,  yh)
                 d    == HashLifeEngine_flatten(p, nd.se, xh, yh)
             IN  [ cells |-> a.cells \cup b.cells \cup c.cells \cup d.cells,
                   ub    |-> Overflows(x + half) \/ Overflows(y + half)
                             \/ a.ub \/ b.ub \/ c.ub \/ d.ub ]

\* -------------------------------------------- hashlife: one cluster step
SetMin(S, start) == CHOOSE m \in S \cup {start} : \A v \in S \cup {start} : m <= v
SetMax(S, start) == CHOOSE m \in S \cup {start} : \A v \in S \cup {start} : m >= v

\* while ((int64_t(1) << level) < range) ++level;
RECURSIVE LevelLoop(_, _)
LevelLoop(range, level) ==
    IF level < IntBits - 1 /\ Shl1(level) < range THEN LevelLoop(range, level + 1)
    ELSE level

\* while (root->level < 2) root = expand(root, ox, oy);
RECURSIVE ExpandLoop(_)
ExpandLoop(t) ==
    IF t.p.nodes[t.n].level < 2 THEN ExpandLoop(HashLifeEngine_expand(t)) ELSE t

\* the root that build_recursive returned, with the origin of its square
Root(b, ox, oy) == [ p |-> b.p, n |-> b.n, ox |-> ox, oy |-> oy ]

\* sorted_.build(cells); cells.clear(); flatten(result, rx, ry, cells): the
\* pool, the sorted list and the cluster's cells when step_cluster returns
Flattened(t, result, quarter, sorted) ==
    LET f == HashLifeEngine_flatten(result.p, result.n,
                                    Wrap(t.ox + quarter), Wrap(t.oy + quarter))
    IN  [ p       |-> [ result.p EXCEPT !.ub = @ \/ f.ub \/ Overflows(t.ox + quarter)
                                                 \/ Overflows(t.oy + quarter) ],
          sorted_ |-> sorted,
          root    |-> t.n,
          ox      |-> t.ox,
          oy      |-> t.oy,
          cells   |-> f.cells ]

\* step_cluster, the bounding box: the level and the origin of the square
\* that is built, and whether a computation on the way overflowed
ClusterSquare(cells) ==
    LET min_x    == SetMin({ X(c) : c \in cells }, MaxVal)
        max_x    == SetMax({ X(c) : c \in cells }, MinVal)
        min_y    == SetMin({ Y(c) : c \in cells }, MaxVal)
        max_y    == SetMax({ Y(c) : c \in cells }, MinVal)
        range_x  == Wrap(max_x - min_x + 1)
        range_y  == Wrap(max_y - min_y + 1)
        range    == Max2(range_x, range_y)
        level    == LevelLoop(range, 1)
        size     == Wrap(Shl1(level))
    IN  [ level |-> level,
          ox    |-> Wrap(min_x - TruncDiv(Wrap(size - range_x), 2)),
          oy    |-> Wrap(min_y - TruncDiv(Wrap(size - range_y), 2)),
          ub    |-> \/ Overflows(max_x - min_x) \/ Overflows(max_x - min_x + 1)
                    \/ Overflows(max_y - min_y) \/ Overflows(max_y - min_y + 1)
                    \/ Overflows(Shl1(level))
                    \/ Overflows(size - range_x) \/ Overflows(size - range_y)
                    \/ Overflows(min_x - TruncDiv(Wrap(size - range_x), 2))
                    \/ Overflows(min_y - TruncDiv(Wrap(size - range_y), 2)) ]

\* step_cluster from build_recursive to the last expand: the root that is
\* handed to slow_step, with the pool and the origin
ClusterRoot(p, sorted, sq) ==
    LET b  == HashLifeEngine_build_recursive(
                  [ p EXCEPT !.ub = @ \/ sq.ub ], sorted, sq.ox, sq.oy, sq.level)
        e0 == ExpandLoop(Root(b, sq.ox, sq.oy))
        e1 == HashLifeEngine_expand(e0)
        e2 == HashLifeEngine_expand(e1)
    IN  InOrder(<< b, e0, e1 >>, e2)

\* step_cluster from slow_step on: the result is flattened into cells
StepRoot(root, sorted) ==
    LET result == HashLifeEngine_slow_step(root)
    IN  InOrder(<< root, result >>,
                Flattened(root, result, Shl1(root.p.nodes[root.n].level - 2), sorted))

\* step_cluster on a non-empty cluster
HashLifeEngine_step_cluster(p, cells) ==
    LET sorted == SortedCells_build(SetToSortedSeq(cells))
    IN  InOrder(sorted, StepRoot(ClusterRoot(p, sorted, ClusterSquare(cells)), sorted))

\* ------------------------------------------------- hashlife: clustering
CHUNK_SIZE == 64

\* the chunk index of one coordinate
ChunkIndex(v) == IF v >= 0 THEN TruncDiv(v, CHUNK_SIZE)
                 ELSE TruncDiv(Wrap(v - CHUNK_SIZE + 1), CHUNK_SIZE)
ChunkIndexUB(v) == v < 0 /\ Overflows(v - CHUNK_SIZE + 1)

ChunkKey(c) == << ChunkIndex(X(c)), ChunkIndex(Y(c)) >>

\* the chunks map: chunk key -> cells of the chunk
Chunks(cells) ==
    [ k \in { ChunkKey(c) : c \in cells } |-> { c \in cells : ChunkKey(c) = k } ]

\* find with path compression: the root of k and the compressed parent map
RECURSIVE uf_root(_, _)
uf_root(parent, k) == IF parent[k] = k THEN k ELSE uf_root(parent, parent[k])

RECURSIVE uf_path(_, _)
uf_path(parent, k) == IF parent[k] = k THEN {} ELSE {k} \cup uf_path(parent, parent[k])

uf_find(parent, k) ==
    LET r == uf_root(parent, k)
        w == uf_path(parent, k)
    IN  [ parent |-> [ j \in DOMAIN parent |-> IF j \in w THEN r ELSE parent[j] ],
          root   |-> r ]

uf_unite(parent, a, b) ==
    LET fa == uf_find(parent, a)
        fb == uf_find(fa.parent, b)
    IN  IF fa.root # fb.root THEN [ fb.parent EXCEPT ![fa.root] = fb.root ]
        ELSE fb.parent

\* the (dx, dy) pairs in the order of the two nested loops
NeighbourOffsets ==
    << <<-1, -1>>, <<-1, 0>>, <<-1, 1>>, <<0, -1>>, <<0, 1>>,
       <<1, -1>>, <<1, 0>>, <<1, 1>> >>

UniteNeighbours_none(parent, key, j) == parent

RECURSIVE UniteNeighbours(_, _, _)
UniteNeighbours(parent, key, j) ==
    IF j > Len(NeighbourOffsets) THEN parent
    ELSE LET neighbor == << key[1] + NeighbourOffsets[j][1],
                            key[2] + NeighbourOffsets[j][2] >>
             next     == IF neighbor \in DOMAIN parent
                         THEN uf_unite(parent, key, neighbor) ELSE parent
         IN  InOrder(next, UniteNeighbours(next, key, j + 1))

\* the merge loop over the chunk keys in iteration order kord
RECURSIVE UniteAll(_, _, _)
UniteAll(parent, kord, i) ==
    IF i > Len(kord) THEN parent
    ELSE LET next == UniteNeighbours(parent, kord[i], 1)
         IN  InOrder(next, UniteAll(next, kord, i + 1))

\* the clusters map as the set of its values
Clusters(cells, kord) ==
    LET chunks == Chunks(cells)
        parent == UniteAll([ k \in DOMAIN chunks |-> k ], kord, 1)
        roots  == { uf_root(parent, k) : k \in DOMAIN chunks }
    IN  { UNION { chunks[k] : k \in { j \in DOMAIN chunks : uf_root(parent, j) = r } }
          : r \in roots }

ClusterUB(cells) == \E c \in cells : ChunkIndexUB(X(c)) \/ ChunkIndexUB(Y(c))

\* the iteration orders of the chunks map that the model explores
KeyOrders(cells) == IterOrders({ ChunkKey(c) : c \in cells })

\* cells.insert of the cells of a stepped cluster
Absorb(st, r) == [ p |-> r.p, cells |-> st.cells \cup r.cells, k |-> st.k + 1 ]

\* the loop over the clusters map, in the order of the sequence cs: st.k is
\* the next cluster, st.p the pool and st.cells the caller's set
RECURSIVE StepClusters(_, _)
StepClusters(st, cs) ==
    IF st.k > Len(cs) THEN st
    ELSE StepClusters(Absorb(st, HashLifeEngine_step_cluster(st.p, cs[st.k])), cs)

RECURSIVE SetOfSetsToSeq(_)
SetOfSetsToSeq(SS) ==
    IF SS = {} THEN << >>
    ELSE LET c == CHOOSE c \in SS : TRUE IN << c >> \o SetOfSetsToSeq(SS \ {c})

\* HashLifeEngine::tick as a whole, from the pool p, with the clusters map
\* iterated in the order of the sequence cs
HashLifeEngine_tick(p, cells, cs) ==
    LET p0 == NodePool_clear(p)
    IN  IF cells = {} THEN [ p |-> p0, cells |-> cells ]
        ELSE StepClusters([ p |-> [ p0 EXCEPT !.ub = @ \/ ClusterUB(cells) ],
                             cells |-> {}, k |-> 1 ], cs)

\* signed overflow while the hashtable or sorted engine computes neighbours
NeighbourUB(cells) ==
    \E c \in cells : /\ ~would_overflow(X(c), Y(c))
                     /\ \E k \in 1..8 : LET n == get_neighbors(X(c), Y(c))[k]
                                        IN  Overflows(X(n)) \/ Overflows(Y(n))

\* --------------------------------------------- a tick that throws bad_alloc
\* The same failure in an engine that fills the caller's set directly, with
\* no second buffer and no swap
HashtableEngine_tick_throw_in_place(ord, cells, counts, newbuf, point) ==
    LET m   == HashtableScan(ord, Min2(point, Len(ord)), ClearCounts(counts))
        out == SetToSortedSeq(HashtableSelect(m, cells))
        j   == point - Len(ord) - 1
    IN  [ cells |-> IF point <= Len(ord) THEN cells
                    ELSE SeqToSet(SubSeq(out, 1, Max2(j, 0))),
          neighbor_count_buffer_ |-> m,
          new_cells_buffer_ |-> newbuf ]

\* The hashtable engine at an allocation that fails: at point < Len(ord)
\* while the counts of cell point + 1 are entered, at point = Len(ord) in
\* reserve, later at insertion number point - Len(ord) into new_cells_buffer_.
\* The swap is never reached.
HashtableEngine_tick_throw(ord, cells, counts, newbuf, point) ==
    LET m   == HashtableScan(ord, Min2(point, Len(ord)), ClearCounts(counts))
        out == SetToSortedSeq(HashtableSelect(m, cells))
        j   == point - Len(ord) - 1
    IN  [ cells |-> cells,
          neighbor_count_buffer_ |-> m,
          new_cells_buffer_ |-> IF point < Len(ord) THEN newbuf
                                ELSE IF j < 0 THEN ClearCells(newbuf)
                                ELSE SeqToSet(SubSeq(out, 1, j)) ]

HashtableThrowPoints(ord, cells) ==
    0..(Len(ord) + Cardinality(HashtableSelect(
            HashtableScan(ord, Len(ord), EmptyMap), cells)))

\* The sorted engine at an allocation that fails: point 0 in
\* sorted_alive_.reserve, point 1 in candidates_.reserve, point 1 + j at the
\* j-th cells.insert, which comes after cells.clear().  r is what the tick
\* computes when nothing fails.
SortedVectorEngine_tick_throw(r, cells, alive0, cands0, point) ==
    IF point = 0
    THEN [ cells |-> cells, sorted_alive_ |-> ClearVector(alive0),
           candidates_ |-> cands0 ]
    ELSE IF point = 1
    THEN [ cells |-> cells, sorted_alive_ |-> r.sorted_alive_,
           candidates_ |-> ClearVector(cands0) ]
    ELSE [ cells |-> ClearCells(cells) \cup SeqToSet(SubSeq(r.inserted, 1, point - 2)),
           sorted_alive_ |-> r.sorted_alive_, candidates_ |-> r.candidates_ ]

SortedThrowPoints(r) == 0..(1 + Len(r.inserted))

\* The hashlife loop body at an allocation that fails: inside step_cluster
\* (j = 0) or at the (j+1)-th cells.insert of the cluster's result
HashLifeEngine_tick_throw(cells, result, j) ==
    cells \cup SeqToSet(SubSeq(SetToSortedSeq(result), 1, j))

\* ------------------------------------------------------------ the state
VARIABLES
    initial_cells,            \* verify_correctness: the pattern
    ticks,                    \* verify_correctness: the tick count
    engine,                   \* index into engines of the game being run, 4 = loop over
    i,                        \* ticks done by the current game
    live_cells_,              \* GameOfLife::live_cells_ of the current game
    results,                  \* the collected result sets
    all_match,                \* the value verify_correctness returns
    status,                   \* "running", "done", "failed" (exception), "crashed" (trap)
    tick_input,               \* the alive-set at entry of the latest tick() call
    neighbor_count_buffer_,   \* HashtableEngine
    new_cells_buffer_,        \* HashtableEngine
    sorted_alive_,            \* SortedVectorEngine
    candidates_,              \* SortedVectorEngine
    pool_,                    \* HashLifeEngine
    sorted_,                  \* HashLifeEngine
    hl_pc,                    \* HashLifeEngine::tick: "idle", "cleared" or "clusters"
    clusters,                 \* HashLifeEngine::tick: clusters not yet stepped
    cluster_root,             \* step_cluster: root, ox, oy at its latest call of slow_step
    ub,                       \* a signed overflow has been executed
    text,                     \* the characters handed to a parser
    thrown,                   \* the exception that left the latest call, or "none"
    others,                   \* the games copied from the current one
    calls,                    \* the tick() calls that run at once on one hashlife engine
    generation                \* ticks of the current game in the run() calls that returned

vars == << initial_cells, ticks, engine, i, live_cells_, results, all_match, status,
           tick_input, neighbor_count_buffer_, new_cells_buffer_, sorted_alive_,
           candidates_, pool_, sorted_, hl_pc, clusters, cluster_root,
           ub, text, thrown, others, calls, generation >>

apiVars == << text, thrown, others, calls, generation >>

\* no two calls run at once
NoCalls == << >>
driverVars == << initial_cells, ticks, results, all_match >>
hashtableVars == << neighbor_count_buffer_, new_cells_buffer_ >>
sortedVars == << sorted_alive_, candidates_ >>
hashlifeVars == << pool_, sorted_, hl_pc, clusters, cluster_root >>

\* no step_cluster has called slow_step since the pool was cleared
NoRoot == [ n |-> NullNode, ox |-> 0, oy |-> 0 ]

Hashtable == 1
Sorted == 2
Hashlife == 3
NumEngines == 3

\* ------------------------------------------------------- initial patterns
Window == { Cell(dx, dy) : dx \in -1..1, dy \in -1..1 }
NearPatterns == { P \in SUBSET Window : Cardinality(P) <= MaxCells }

Translate(S, a) == { Cell(X(c) + X(a), Y(c) + Y(a)) : c \in S }

\* Where the near pattern is placed and what stands beside it: around the
\* origin (four chunks meet there), next to each coordinate limit, where
\* x - 63 stops fitting, with a second group three cells off the window, with
\* a group far away, and with a group a few cells from the upper limit.
Placement(a, piece) == [ anchor |-> a, piece |-> piece ]

Placements ==
    { Placement(Cell(0, 0), {}),
      Placement(Cell(MaxVal - 1, 0), {}),
      Placement(Cell(MinVal + 1, 0), {}),
      Placement(Cell(MinVal + 62, 0), {}),
      Placement(Cell(0, MaxVal - 1), {}),
      Placement(Cell(0, 0), { Cell(4, 0), Cell(4, 1), Cell(5, 0) }),
      Placement(Cell(0, 0), { Cell(300, -1), Cell(300, 0), Cell(300, 1) }),
      Placement(Cell(MaxVal - 1, 0),
                { Cell(MaxVal - 7, 0), Cell(MaxVal - 7, 1), Cell(MaxVal - 6, 0) }) }

InitialSets ==
    { Translate(P, pl.anchor) \cup pl.piece : P \in NearPatterns, pl \in Placements }

Init ==
    /\ initial_cells \in InitialSets
    /\ ticks \in 0..MaxTicks
    /\ engine = Hashtable
    /\ i = 0
    /\ live_cells_ = initial_cells
    /\ results = << >>
    /\ all_match = TRUE
    /\ status = "running"
    /\ tick_input = {}
    /\ neighbor_count_buffer_ = EmptyMap
    /\ new_cells_buffer_ = {}
    /\ sorted_alive_ = << >>
    /\ candidates_ = << >>
    /\ pool_ = NodePool_new
    /\ sorted_ = << >>
    /\ hl_pc = "idle"
    /\ clusters = {}
    /\ cluster_root = NoRoot
    /\ ub = FALSE
    /\ text = << >>
    /\ thrown = "none"
    /\ others = << >>
    /\ calls = NoCalls
    /\ generation = 0

\* ------------------------------------------------------------- the ticks
Running(e) == status = "running" /\ engine = e /\ i < ticks

\* GameOfLife::tick with the hashtable engine
TickHashtable ==
    /\ Running(Hashtable)
    /\ \E ord \in IterOrders(live_cells_) :
         LET r == HashtableEngine_tick(ord, live_cells_, neighbor_count_buffer_,
                                       new_cells_buffer_)
         IN  /\ live_cells_' = r.cells
             /\ neighbor_count_buffer_' = r.neighbor_count_buffer_
             /\ new_cells_buffer_' = r.new_cells_buffer_
    /\ tick_input' = live_cells_
    /\ i' = i + 1
    /\ ub' = (ub \/ NeighbourUB(live_cells_))
    /\ UNCHANGED << apiVars, driverVars, engine, status, sortedVars, hashlifeVars >>

\* GameOfLife::tick with the sorted vector engine
TickSorted ==
    /\ Running(Sorted)
    /\ \E ord \in IterOrders(live_cells_) :
         LET r == SortedVectorEngine_tick(ord, live_cells_, sorted_alive_, candidates_)
         IN  /\ live_cells_' = r.cells
             /\ sorted_alive_' = r.sorted_alive_
             /\ candidates_' = r.candidates_
    /\ tick_input' = live_cells_
    /\ i' = i + 1
    /\ ub' = (ub \/ NeighbourUB(live_cells_))
    /\ UNCHANGED << apiVars, driverVars, engine, status, hashtableVars, hashlifeVars >>

\* a build that traps on signed overflow stops here; any other goes on with
\* the wrapped value
Outcomes(overflowed) == IF overflowed THEN { "wrap", "trap" } ELSE { "wrap" }

\* HashLifeEngine::tick, first statement: pool_.clear()
HashlifeClear ==
    /\ Running(Hashlife)
    /\ hl_pc = "idle"
    /\ pool_' = NodePool_clear(pool_)
    /\ hl_pc' = "cleared"
    /\ cluster_root' = NoRoot
    /\ tick_input' = live_cells_
    /\ UNCHANGED << apiVars, driverVars, engine, i, live_cells_, status, hashtableVars,
                    sortedVars, sorted_, clusters, ub >>

\* HashLifeEngine::tick up to cells.clear(): the early return on an empty
\* set, else chunks, union-find and the clusters map
HashlifeCluster ==
    /\ Running(Hashlife)
    /\ hl_pc = "cleared"
    /\ IF live_cells_ = {}
       THEN /\ hl_pc' = "idle"
            /\ i' = i + 1
            /\ UNCHANGED << live_cells_, clusters, ub, status >>
       ELSE \E kord \in KeyOrders(live_cells_) :
            \E o \in Outcomes(ClusterUB(live_cells_)) :
              /\ ub' = (ub \/ ClusterUB(live_cells_))
              /\ IF o = "trap"
                 THEN /\ status' = "crashed"
                      /\ UNCHANGED << live_cells_, clusters, hl_pc, i >>
                 ELSE /\ clusters' = Clusters(live_cells_, kord)
                      /\ live_cells_' = {}
                      /\ hl_pc' = "clusters"
                      /\ UNCHANGED << status, i >>
    /\ UNCHANGED << apiVars, driverVars, engine, tick_input, hashtableVars, sortedVars,
                    pool_, sorted_, cluster_root >>

\* the state after step_cluster on the cluster c has returned r and the
\* cells of r are inserted
ClusterStepped(c, r) ==
    \E o \in Outcomes(r.p.ub) :
      /\ ub' = (ub \/ r.p.ub)
      /\ IF o = "trap"
         THEN /\ status' = "crashed"
              /\ UNCHANGED << live_cells_, clusters, hl_pc, i, pool_, sorted_, cluster_root >>
         ELSE /\ pool_' = [ r.p EXCEPT !.ub = FALSE ]
              /\ sorted_' = r.sorted_
              /\ cluster_root' = [ n |-> r.root, ox |-> r.ox, oy |-> r.oy ]
              /\ live_cells_' = live_cells_ \cup r.cells
              /\ clusters' = clusters \ {c}
              /\ hl_pc' = IF clusters = {c} THEN "idle" ELSE "clusters"
              /\ i' = IF clusters = {c} THEN i + 1 ELSE i
              /\ UNCHANGED status

\* one iteration of the loop over clusters: step_cluster and the inserts
HashlifeStepCluster ==
    /\ Running(Hashlife)
    /\ hl_pc = "clusters"
    /\ \E c \in clusters : ClusterStepped(c, HashLifeEngine_step_cluster(pool_, c))
    /\ UNCHANGED << apiVars, driverVars, engine, tick_input, hashtableVars, sortedVars >>

\* ------------------------------------------------- verify_correctness
\* end of the inner loop: results.push_back(game.cells()), next engine's game
NextEngine ==
    /\ status = "running"
    /\ engine <= NumEngines
    /\ i = ticks
    /\ results' = Append(results, live_cells_)
    /\ engine' = engine + 1
    /\ IF engine < NumEngines
       THEN live_cells_' = initial_cells /\ i' = 0
       ELSE UNCHANGED << live_cells_, i >>
    /\ UNCHANGED << apiVars, initial_cells, ticks, all_match, status, tick_input,
                    hashtableVars, sortedVars, hashlifeVars, ub >>

\* the comparison of every result against the hashtable result
Compare ==
    /\ status = "running"
    /\ engine = NumEngines + 1
    /\ all_match' = (\A k \in 2..Len(results) : results[k] = results[1])
    /\ status' = "done"
    /\ UNCHANGED << apiVars, initial_cells, ticks, engine, i, live_cells_, results, tick_input,
                    hashtableVars, sortedVars, hashlifeVars, ub >>

Next ==
    \/ TickHashtable
    \/ TickSorted
    \/ HashlifeClear
    \/ HashlifeCluster
    \/ HashlifeStepCluster
    \/ NextEngine
    \/ Compare

Spec == Init /\ [][Next]_vars

\* ------------------------------------------- ticks that end in bad_alloc
\* the exception leaves verify_correctness; nothing runs afterwards
ThrowHashtable ==
    /\ Running(Hashtable)
    /\ \E ord \in IterOrders(live_cells_) :
       \E point \in HashtableThrowPoints(ord, live_cells_) :
         LET r == HashtableEngine_tick_throw(ord, live_cells_, neighbor_count_buffer_,
                                             new_cells_buffer_, point)
         IN  /\ live_cells_' = r.cells
             /\ neighbor_count_buffer_' = r.neighbor_count_buffer_
             /\ new_cells_buffer_' = r.new_cells_buffer_
    /\ tick_input' = live_cells_
    /\ status' = "failed"
    /\ UNCHANGED << apiVars, driverVars, engine, i, sortedVars, hashlifeVars, ub >>

ThrowSorted ==
    /\ Running(Sorted)
    /\ \E ord \in IterOrders(live_cells_) :
         LET whole == SortedVectorEngine_tick(ord, live_cells_, sorted_alive_, candidates_)
         IN  \E point \in SortedThrowPoints(whole) :
               LET r == SortedVectorEngine_tick_throw(whole, live_cells_, sorted_alive_,
                                                      candidates_, point)
               IN  /\ live_cells_' = r.cells
                   /\ sorted_alive_' = r.sorted_alive_
                   /\ candidates_' = r.candidates_
    /\ tick_input' = live_cells_
    /\ status' = "failed"
    /\ UNCHANGED << apiVars, driverVars, engine, i, hashtableVars, hashlifeVars, ub >>

\* an allocation of the chunks, parent or clusters map fails: before cells.clear()
ThrowHashlifeCluster ==
    /\ Running(Hashlife)
    /\ hl_pc = "cleared"
    /\ live_cells_ # {}
    /\ status' = "failed"
    /\ UNCHANGED << apiVars, driverVars, engine, i, live_cells_, tick_input, hashtableVars,
                    sortedVars, hashlifeVars, ub >>

\* the state when, after step_cluster has returned r, the insert number
\* j + 1 of its cells fails, or when step_cluster itself fails (j = 0)
ClusterStepThrown(r) ==
    \E j \in 0..Max2(0, Cardinality(r.cells) - 1) :
      /\ live_cells_' = HashLifeEngine_tick_throw(live_cells_, r.cells, j)
      /\ pool_' = [ r.p EXCEPT !.ub = FALSE ]
      /\ sorted_' = r.sorted_
      /\ cluster_root' = [ n |-> r.root, ox |-> r.ox, oy |-> r.oy ]

\* an allocation fails in the loop over clusters: after cells.clear()
ThrowHashlifeStep ==
    /\ Running(Hashlife)
    /\ hl_pc = "clusters"
    /\ \E c \in clusters : ClusterStepThrown(HashLifeEngine_step_cluster(pool_, c))
    /\ status' = "failed"
    /\ UNCHANGED << apiVars, driverVars, engine, i, tick_input, hashtableVars, sortedVars,
                    hl_pc, clusters, ub >>

\* the runs in which an allocation may fail start from the patterns around
\* the origin, alone (one cluster) or with the far group (two clusters)
ThrowPlacements ==
    { pl \in Placements : pl.anchor = Cell(0, 0) /\ \A c \in pl.piece : X(c) > CHUNK_SIZE }

InitThrow ==
    /\ Init
    /\ \E P \in NearPatterns, pl \in ThrowPlacements : initial_cells = P \cup pl.piece

NextThrow ==
    \/ TickHashtable
    \/ TickSorted
    \/ HashlifeClear
    \/ HashlifeCluster
    \/ HashlifeStepCluster
    \/ NextEngine
    \/ Compare
    \/ ThrowHashtable
    \/ ThrowSorted
    \/ ThrowHashlifeCluster
    \/ ThrowHashlifeStep

SpecThrow == InitThrow /\ [][NextThrow]_vars

\* ------------------------------------------------------ main: --engine NAME
\* a string is the sequence of its characters
Upper == << "A", "B", "C", "D", "E", "F", "G", "H", "I", "J", "K", "L", "M",
            "N", "O", "P", "Q", "R", "S", "T", "U", "V", "W", "X", "Y", "Z" >>
Lower == << "a", "b", "c", "d", "e", "f", "g", "h", "i", "j", "k", "l", "m",
            "n", "o", "p", "q", "r", "s", "t", "u", "v", "w", "x", "y", "z" >>

IndexOf(c, table) == CHOOSE k \in 1..Len(table) : table[k] = c
IsIn(c, table) == \E k \in 1..Len(table) : table[k] = c

\* std::tolower without the lowering, for comparison
tolower_identity(c) == c

\* std::tolower in the "C" locale, which main never changes
tolower(c) == IF IsIn(c, Upper) THEN Lower[IndexOf(c, Upper)] ELSE c

hashtable_name == << "h", "a", "s", "h", "t", "a", "b", "l", "e" >>
sorted_name == << "s", "o", "r", "t", "e", "d" >>
hashlife_name == << "h", "a", "s", "h", "l", "i", "f", "e" >>

Returned(v) == [ thrown |-> "none", value |-> v ]
Threw(e) == [ thrown |-> e, value |-> << >> ]

parse_engine_type(s) ==
    LET lower == [ k \in 1..Len(s) |-> tolower(s[k]) ]
    IN  IF lower = hashtable_name THEN Returned(Hashtable)
        ELSE IF lower = sorted_name THEN Returned(Sorted)
        ELSE IF lower = hashlife_name THEN Returned(Hashlife)
        ELSE Threw("invalid_argument")

\* the names given on the command line: the three names with some of their
\* letters in upper case, and strings that are none of them
UpperAt(s, K) == [ k \in 1..Len(s) |-> IF k \in K /\ IsIn(s[k], Lower)
                                        THEN Upper[IndexOf(s[k], Lower)] ELSE s[k] ]
Spellings(s, K) == { UpperAt(s, J) : J \in SUBSET K } \cup { UpperAt(s, 1..Len(s)) }

OtherNames ==
    { << >>, << " " >>, SubSeq(sorted_name, 1, 4), SubSeq(hashlife_name, 1, 4),
      sorted_name \o << " " >>, << " " >> \o sorted_name, sorted_name \o << "d" >>,
      sorted_name \o hashlife_name, SubSeq(hashlife_name, 1, 4) \o << "-" >> \o
      SubSeq(hashlife_name, 5, 8), SubSeq(hashtable_name, 1, 8) \o << "3" >>,
      SubSeq(hashtable_name, 2, 9), << "h", "a", "s", "h", "m", "a", "p" >>,
      << "s", "o", "r", "t", "i", "n", "g" >>, << "q", "u", "a", "d", "t", "r", "e", "e" >>,
      << "0" >>, << "1" >> }

EngineArgs ==
    Spellings(sorted_name, 1..Len(sorted_name))
      \cup Spellings(hashtable_name, 1..4) \cup Spellings(hashlife_name, 5..8)
      \cup UNION { Spellings(s, {1}) : s \in OtherNames }

\* the engines' members as their constructors leave them
EnginesConstructed ==
    /\ neighbor_count_buffer_ = EmptyMap
    /\ new_cells_buffer_ = {}
    /\ sorted_alive_ = << >>
    /\ candidates_ = << >>
    /\ pool_ = NodePool_new
    /\ sorted_ = << >>
    /\ hl_pc = "idle"
    /\ clusters = {}
    /\ cluster_root = NoRoot
    /\ ub = FALSE

\* main before its argument loop: no game exists, engine_type is Hashtable
MainStarted ==
    /\ status = "args"
    /\ engine = Hashtable
    /\ initial_cells = {}
    /\ ticks = 0
    /\ i = 0
    /\ live_cells_ = {}
    /\ results = << >>
    /\ all_match = TRUE
    /\ tick_input = {}
    /\ EnginesConstructed
    /\ thrown = "none"
    /\ others = << >>
    /\ calls = NoCalls
    /\ generation = 0

InitEngineArg ==
    /\ text \in EngineArgs
    /\ MainStarted

\* main, the --engine branch of the argument loop: return 1 on the exception
MainEngineArg ==
    /\ status = "args"
    /\ LET r == parse_engine_type(text)
       IN  IF r.thrown = "none"
           THEN /\ engine' = r.value
                /\ status' = "parsed"
                /\ UNCHANGED thrown
           ELSE /\ thrown' = r.thrown
                /\ status' = "exit"
                /\ UNCHANGED engine
    /\ UNCHANGED << text, others, calls, generation, driverVars, i, live_cells_, tick_input,
                    hashtableVars, sortedVars, hashlifeVars, ub >>

\* main after the argument loop: the game is made with engine_type
MainConstructGame ==
    /\ status = "parsed"
    /\ status' = "ready"
    /\ live_cells_' = {}
    /\ UNCHANGED << apiVars, driverVars, engine, i, tick_input, hashtableVars,
                    sortedVars, hashlifeVars, ub >>

NextEngineArg ==
    \/ MainEngineArg
    \/ MainConstructGame

SpecEngineArg == InitEngineArg /\ [][NextEngineArg]_vars


\* ------------------------------------------------- GameOfLife: run, copies
MaxRun == 4
MaxAdvances == 4

\* run without its check of the argument, for comparison
GameOfLife_run_rejects_nothing(iterations) == FALSE

\* GameOfLife::run: if (iterations < 0) throw std::invalid_argument
GameOfLife_run_rejects(iterations) == iterations < 0

\* an engine object: its type() and its members
create_engine(type) ==
    IF type = Hashtable
    THEN [ type |-> Hashtable, neighbor_count_buffer_ |-> EmptyMap, new_cells_buffer_ |-> {} ]
    ELSE IF type = Sorted
    THEN [ type |-> Sorted, sorted_alive_ |-> << >>, candidates_ |-> << >> ]
    ELSE [ type |-> Hashlife, pool_ |-> NodePool_new, sorted_ |-> << >> ]

\* a clone() that always makes a hashtable engine, for comparison
clone_as_hashtable(e) == create_engine(Hashtable)

\* clone() of the three engines: std::make_unique of the engine's own class
clone(e) == create_engine(e.type)

\* the engine object of the current game
CurrentEngine ==
    IF engine = Hashtable
    THEN [ type |-> Hashtable, neighbor_count_buffer_ |-> neighbor_count_buffer_,
           new_cells_buffer_ |-> new_cells_buffer_ ]
    ELSE IF engine = Sorted
    THEN [ type |-> Sorted, sorted_alive_ |-> sorted_alive_, candidates_ |-> candidates_ ]
    ELSE [ type |-> Hashlife, pool_ |-> pool_, sorted_ |-> sorted_ ]

\* a game object; age counts its generations since initial_cells and is no
\* member of the class
Game(cells, e, age) == [ live_cells_ |-> cells, engine_ |-> e, age |-> age ]

\* engine_ after std::move(engine_): the null pointer
NullEngine == [ type |-> 0 ]

\* GameOfLife(const GameOfLife& other) and operator=: the cells are copied,
\* the engine is cloned, or made anew where other has none
GameOfLife_copy(other) ==
    Game(other.live_cells_,
         IF other.engine_ # NullEngine THEN clone(other.engine_)
         ELSE create_engine(Hashtable),
         other.age)

\* the game g after its engine's tick has returned r
HashtableTicked(g, r) ==
    Game(r.cells, [ type |-> Hashtable, neighbor_count_buffer_ |-> r.neighbor_count_buffer_,
                    new_cells_buffer_ |-> r.new_cells_buffer_ ], g.age + 1)
SortedTicked(g, r) ==
    Game(r.cells, [ type |-> Sorted, sorted_alive_ |-> r.sorted_alive_,
                    candidates_ |-> r.candidates_ ], g.age + 1)
HashlifeTicked(g, r, last) ==
    Game(r.cells, [ type |-> Hashlife, pool_ |-> [ r.p EXCEPT !.ub = FALSE ],
                    sorted_ |-> IF g.live_cells_ = {} THEN g.engine_.sorted_
                                ELSE SortedCells_build(SetToSortedSeq(last)) ], g.age + 1)
HashlifeTick(g, cs) ==
    HashlifeTicked(g, HashLifeEngine_tick(g.engine_.pool_, g.live_cells_, cs), cs[Len(cs)])

\* engine_->tick(live_cells_) of the game g, the set iterated in the order
\* ord and the clusters map in the order of the chunk keys kord
GameOfLife_tick(g, ord, kord) ==
    IF g.engine_.type = Hashtable
    THEN HashtableTicked(g, HashtableEngine_tick(ord, g.live_cells_,
                                g.engine_.neighbor_count_buffer_, g.engine_.new_cells_buffer_))
    ELSE IF g.engine_.type = Sorted
    THEN SortedTicked(g, SortedVectorEngine_tick(ord, g.live_cells_,
                             g.engine_.sorted_alive_, g.engine_.candidates_))
    ELSE HashlifeTick(g, SetOfSetsToSeq(Clusters(g.live_cells_, kord)))

\* the order of an unordered container: ascending, or descending
Ordered(S, descending) == IF descending THEN Reverse(SetToSortedSeq(S)) ELSE SetToSortedSeq(S)

\* the patterns of the tests, moved to places away from the coordinate
\* limits: the origin, across chunk borders on either side of zero, far out
blinker_h == { Cell(0, 0), Cell(1, 0), Cell(2, 0) }
blinker_v == { Cell(1, -1), Cell(1, 0), Cell(1, 1) }
block == { Cell(0, 0), Cell(1, 0), Cell(0, 1), Cell(1, 1) }
glider == { Cell(0, 1), Cell(1, 2), Cell(2, 0), Cell(2, 1), Cell(2, 2) }
Offsets == { Cell(0, 0), Cell(CHUNK_SIZE - 2, CHUNK_SIZE - 1), Cell(-1, -1),
             Cell(-CHUNK_SIZE - 2, 5), Cell(4 * CHUNK_SIZE, -5 * CHUNK_SIZE) }
GamePatterns ==
    { Translate(blinker_h, a) : a \in Offsets }
      \cup { Translate(P, a) : P \in { block, glider },
                               a \in { Cell(0, 0), Cell(1, 1), Cell(-CHUNK_SIZE - 2, 5) } }
      \cup { {}, { Cell(0, 0) }, { Cell(0, 0), Cell(1, 0) }, { Cell(-1, 0), Cell(CHUNK_SIZE, 3) } }

\* the games that are copied
CopiedPatterns == { glider, Translate(blinker_h, Cell(CHUNK_SIZE - 2, CHUNK_SIZE - 1)) }

\* GameOfLife(cells, engine_type) has returned
InitGame ==
    /\ initial_cells \in GamePatterns
    /\ engine \in 1..NumEngines
    /\ live_cells_ = initial_cells
    /\ status = "ready"
    /\ ticks = 0
    /\ i = 0
    /\ results = << >>
    /\ all_match = TRUE
    /\ tick_input = {}
    /\ EnginesConstructed
    /\ text = << >>
    /\ thrown = "none"
    /\ others = << >>
    /\ calls = NoCalls
    /\ generation = 0

\* GameOfLife::run is called: the check of the argument, then the loop of
\* ticks begins; generation counts the ticks asked for
GameRun ==
    /\ status = "ready"
    /\ \E n \in -1..MaxRun :
         /\ generation + n <= MaxAdvances
         /\ IF GameOfLife_run_rejects(n)
            THEN /\ thrown' = "invalid_argument"
                 /\ UNCHANGED << ticks, i, status, generation >>
            ELSE /\ thrown' = "none"
                 /\ ticks' = n
                 /\ i' = 0
                 /\ status' = "running"
                 /\ generation' = generation + n
    /\ UNCHANGED << text, others, calls, initial_cells, results, all_match, engine, live_cells_,
                    tick_input, hashtableVars, sortedVars, hashlifeVars, ub >>

\* the loop of run is over: i < iterations is false
GameRunReturn ==
    /\ status = "running"
    /\ ~(i < ticks)
    /\ hl_pc = "idle"
    /\ status' = "ready"
    /\ UNCHANGED << apiVars, driverVars, engine, i, live_cells_, tick_input,
                    hashtableVars, sortedVars, hashlifeVars, ub >>

\* the game as an object
Current == Game(live_cells_, CurrentEngine, generation)

\* GameOfLife other(game), or other = game
GameCopy ==
    /\ status = "ready"
    /\ initial_cells \in CopiedPatterns
    /\ others' = << GameOfLife_copy(Current) >>
    /\ others' # others
    /\ UNCHANGED << text, thrown, calls, generation, driverVars, engine, i, live_cells_, status,
                    tick_input, hashtableVars, sortedVars, hashlifeVars, ub >>

\* game = other: the current game's engine is replaced by a clone
GameAssign ==
    /\ status = "ready"
    /\ others # << >>
    /\ LET g == GameOfLife_copy(others[1])
       IN  /\ live_cells_' = g.live_cells_
           /\ engine' = g.engine_.type
           /\ generation' = g.age
    /\ neighbor_count_buffer_' = EmptyMap
    /\ new_cells_buffer_' = {}
    /\ sorted_alive_' = << >>
    /\ candidates_' = << >>
    /\ pool_' = NodePool_new
    /\ sorted_' = << >>
    /\ cluster_root' = NoRoot
    /\ UNCHANGED << text, thrown, others, calls, driverVars, i, status, tick_input, hl_pc,
                    clusters, ub >>

\* other.tick()
OtherTick ==
    /\ others # << >>
    /\ others[1].age < MaxAdvances
    /\ \E descending \in BOOLEAN :
         others' = << GameOfLife_tick(others[1], Ordered(others[1].live_cells_, descending),
                        Ordered({ ChunkKey(c) : c \in others[1].live_cells_ }, descending)) >>
    /\ UNCHANGED << text, thrown, calls, generation, driverVars, engine, i, live_cells_, status,
                    tick_input, hashtableVars, sortedVars, hashlifeVars, ub >>

NextGame ==
    \/ GameRun
    \/ TickHashtable
    \/ TickSorted
    \/ HashlifeClear
    \/ HashlifeCluster
    \/ HashlifeStepCluster
    \/ GameRunReturn
    \/ GameCopy
    \/ GameAssign
    \/ OtherTick

SpecGame == InitGame /\ [][NextGame]_vars


\* ------------------------------------------------------- GameOfLife::parse
Digits == << "0", "1", "2", "3", "4", "5", "6", "7", "8", "9" >>
header == << "#", "L", "i", "f", "e", " ", "1", ".", "0", "6" >>

\* std::getline: the lines of the text from its character k on, each without
\* its '\n'; characters after the last '\n' are a line too
RECURSIVE getline(_, _, _)
getline(s, k, line) ==
    IF k > Len(s) THEN (IF line = << >> THEN << >> ELSE << line >>)
    ELSE IF s[k] = "\n" THEN << line >> \o getline(s, k + 1, << >>)
    ELSE getline(s, k + 1, Append(line, s[k]))

\* a trim that takes spaces and tabs only, for comparison
find_last_not_of_blank(line) ==
    IF \A k \in 1..Len(line) : line[k] \in { " ", "\t" } THEN 0
    ELSE CHOOSE k \in 1..Len(line) :
           /\ line[k] \notin { " ", "\t" }
           /\ \A j \in (k + 1)..Len(line) : line[j] \in { " ", "\t" }

\* line.find_last_not_of(" \t\r\n"), counted from 1; 0 is npos
find_last_not_of(line) ==
    IF \A k \in 1..Len(line) : line[k] \in { " ", "\t", "\r", "\n" } THEN 0
    ELSE CHOOSE k \in 1..Len(line) :
           /\ line[k] \notin { " ", "\t", "\r", "\n" }
           /\ \A j \in (k + 1)..Len(line) : line[j] \in { " ", "\t", "\r", "\n" }

\* while (ptr < line_end && (*ptr == ' ' || *ptr == '\t')) ++ptr
RECURSIVE SkipBlanks(_, _)
SkipBlanks(line, ptr) ==
    IF ptr <= Len(line) /\ line[ptr] \in { " ", "\t" } THEN SkipBlanks(line, ptr + 1) ELSE ptr

\* std::from_chars for int64_t, base 10: an optional '-', then digits; the
\* value is checked against the range of the type
RECURSIVE DigitsEnd(_, _)
DigitsEnd(line, ptr) ==
    IF ptr <= Len(line) /\ IsIn(line[ptr], Digits) THEN DigitsEnd(line, ptr + 1) ELSE ptr

RECURSIVE Accumulate(_, _, _, _)
Accumulate(line, ptr, stop, value) ==
    IF ptr = stop THEN value
    ELSE Accumulate(line, ptr + 1, stop, 10 * value + IndexOf(line[ptr], Digits) - 1)

FromChars(first, start, stop, value) ==
    IF stop = start THEN [ ptr |-> first, ec |-> "invalid_argument", value |-> 0 ]
    ELSE IF Overflows(value) THEN [ ptr |-> stop, ec |-> "result_out_of_range", value |-> 0 ]
    ELSE [ ptr |-> stop, ec |-> "", value |-> value ]

from_chars(line, first) ==
    IF first <= Len(line) /\ line[first] = "-"
    THEN FromChars(first, first + 1, DigitsEnd(line, first + 1),
                   -Accumulate(line, first + 1, DigitsEnd(line, first + 1), 0))
    ELSE FromChars(first, first, DigitsEnd(line, first),
                   Accumulate(line, first, DigitsEnd(line, first), 0))

\* the body of the loop for a coordinate line: the cell, or the exception
AfterY(line, x, r2) ==
    IF r2.ec # "" THEN Threw("runtime_error")
    ELSE IF SkipBlanks(line, r2.ptr) # Len(line) + 1 THEN Threw("runtime_error")
    ELSE Returned(Cell(x, r2.value))

AfterX(line, r1) ==
    IF r1.ec # "" THEN Threw("runtime_error")
    ELSE IF SkipBlanks(line, r1.ptr) = r1.ptr THEN Threw("runtime_error")
    ELSE AfterY(line, r1.value, from_chars(line, SkipBlanks(line, r1.ptr)))

ParseLine(line) == AfterX(line, from_chars(line, SkipBlanks(line, 1)))

\* the loop of parse_cells from the line k on, and the check after it
RECURSIVE ParseLoop(_, _, _, _), InsertCell(_, _, _, _)
ParseLoop(lines, k, header_found, cells) ==
    IF k > Len(lines)
    THEN (IF header_found THEN Returned(cells) ELSE Threw("runtime_error"))
    ELSE IF find_last_not_of(lines[k]) = 0
    THEN ParseLoop(lines, k + 1, header_found, cells)
    ELSE IF ~header_found
    THEN (IF SubSeq(lines[k], 1, find_last_not_of(lines[k])) # header
          THEN Threw("runtime_error")
          ELSE ParseLoop(lines, k + 1, TRUE, cells))
    ELSE InsertCell(lines, k, cells,
                    ParseLine(SubSeq(lines[k], 1, find_last_not_of(lines[k]))))

\* cells.insert({x, y}), or the exception of the line goes on
InsertCell(lines, k, cells, c) ==
    IF c.thrown # "none" THEN c ELSE ParseLoop(lines, k + 1, TRUE, cells \cup { c.value })

parse_cells(input) == ParseLoop(getline(input, 1, << >>), 1, FALSE, {})

\* the decimal digits of n >= 0, as operator<< writes them
RECURSIVE Decimal(_)
Decimal(n) == IF n < 10 THEN << Digits[n + 1] >>
              ELSE Decimal(n \div 10) \o << Digits[(n % 10) + 1] >>

\* the texts parsed: a first line out of FirstLines, then none, one or two
\* lines out of CoordinateLines, which vary one part of the line "7 -1" at a
\* time; with blank lines between, with and without the last '\n'; and
\* texts without any header
Numbers ==
    { << "0" >>, << "7" >>, << "-", "1" >>, << "0", "0", "7" >>, << "-", "0" >>,
      Decimal(MaxVal), Decimal(MaxVal + 1), << "-" >> \o Decimal(-MinVal),
      << "-" >> \o Decimal(1 - MinVal), << "+", "1" >>, << "-" >>, << >>,
      << "1", "x" >>, << "-", "-", "1" >>, << "1", ".", "5" >>, << "x" >> }
Leads == { << >>, << " " >>, << "\t", " " >>, << "\r" >> }
Separators == { << >>, << " " >>, << "\t" >>, << " ", "\t", " " >>, << "\r" >>, << "," >> }
Trails == { << >>, << " " >>, << "\r" >>, << " ", "\t", "\r" >>, << "x" >>, << " ", "3" >>,
            << "\r", "3" >>, << " ", "#" >> }
CoordinateLine(lead, x, sep, y, trail) == lead \o x \o sep \o y \o trail
CoordinateLines ==
    { CoordinateLine(l, << "7" >>, << " " >>, << "-", "1" >>, << >>) : l \in Leads }
      \cup { CoordinateLine(<< >>, x, << " " >>, << "-", "1" >>, << >>) : x \in Numbers }
      \cup { CoordinateLine(<< >>, << "7" >>, s, << "-", "1" >>, << >>) : s \in Separators }
      \cup { CoordinateLine(<< >>, << "7" >>, << "\t" >>, y, << >>) : y \in Numbers }
      \cup { CoordinateLine(<< >>, << "7" >>, << " " >>, << "-", "1" >>, t) : t \in Trails }
FirstLines ==
    { header, header \o << " " >>, header \o << "\r" >>, header \o << " ", "\t", "\r" >>,
      << " " >> \o header, header \o << "x" >>, SubSeq(header, 1, 9) \o << "5" >>,
      << "#", "l" >> \o SubSeq(header, 3, 10), SubSeq(header, 1, 5),
      << "7", " ", "-", "1" >> }
BlankLines == { << >>, << " ", "\t" >>, << "\r" >> }

RECURSIVE Join(_)
Join(lines) == IF lines = << >> THEN << >> ELSE Head(lines) \o << "\n" >> \o Join(Tail(lines))

Bodies ==
    { << >> } \cup { << l >> : l \in CoordinateLines }
      \cup { << k, l >> : k \in { << "0", " ", "0" >>, << " ", "7", "\t", "-", "1", "\r" >> },
                          l \in CoordinateLines }
      \cup { << b, << "7", " ", "-", "1" >>, b >> : b \in BlankLines }
ParseInputs ==
    { Join(<< f >> \o b) : f \in FirstLines, b \in Bodies }
      \cup { Join(<< b, header, b, << "7", " ", "7" >> >>) : b \in BlankLines }
      \cup { Join(<< header >>) \o l : l \in CoordinateLines }
      \cup { Join(<< b >>) : b \in BlankLines } \cup { << >>, header }

\* main has read its arguments; the text is what the stream will give
InitParse ==
    /\ text \in ParseInputs
    /\ MainStarted

\* GameOfLife::parse(input, engine): parse_cells, then the constructor; an
\* exception of parse_cells leaves no game
GameParse ==
    /\ status = "args"
    /\ LET r == parse_cells(text)
       IN  IF r.thrown = "none"
           THEN /\ live_cells_' = r.value
                /\ initial_cells' = r.value
                /\ status' = "ready"
                /\ UNCHANGED thrown
           ELSE /\ thrown' = r.thrown
                /\ status' = "exit"
                /\ UNCHANGED << live_cells_, initial_cells >>
    /\ UNCHANGED << text, others, calls, generation, ticks, results, all_match, engine, i,
                    tick_input, hashtableVars, sortedVars, hashlifeVars, ub >>

NextParse ==
    \/ GameParse

SpecParse == InitParse /\ [][NextParse]_vars


\* ------------------------------------- HashLifeEngine::tick, two calls at once
\* Two callers hand sets of their own to tick() of one engine object, with
\* nothing that orders the calls. calls[a] is the call of the caller a: pc is
\* its position in tick, cells the caller's set, clusters and cluster the
\* locals of tick, root the locals root, ox, oy of step_cluster. The fields
\* input, overlapped, cleared, lost and read are no variables of the code:
\* the set at entry, whether the other call was in progress during this one,
\* whether the other call has run pool_.clear() since root was built,
\* whether root is no node of the arena any more, and what slow_step found
\* where root pointed.
Callers == 1..2
Other(a) == 3 - a

Call(cells) ==
    [ pc |-> "idle", cells |-> cells, input |-> cells, clusters |-> {}, cluster |-> {},
      root |-> NoRoot, overlapped |-> FALSE, cleared |-> FALSE, lost |-> FALSE,
      read |-> "none" ]

InProgress(c) == c.pc \notin { "idle", "returned" }

\* the sets the callers hold: none, a row, a row elsewhere, a row and a column
\* in two clusters
Row == { Cell(-1, 0), Cell(0, 0), Cell(1, 0) }
Column == { Cell(0, -1), Cell(0, 0), Cell(0, 1) }
CallInputs ==
    { {}, Row, Translate(Column, Cell(100, 5)),
      Row \cup Translate(Column, Cell(200, 0)) }

Discarded_never(root, p) == FALSE

\* the node root.n has been deleted with its chunk
Discarded(root, p) == root.n > Len(p.nodes)

\* what pool_.clear() of one call does to the other call c
ClearedUnder(c, p) ==
    IF c.pc = "rooted"
    THEN [ c EXCEPT !.overlapped = TRUE, !.cleared = TRUE, !.lost = Discarded(c.root, p) ]
    ELSE [ c EXCEPT !.overlapped = @ \/ InProgress(c) ]

NoneUndefined == \A a \in DOMAIN calls : calls[a].pc # "undefined"

\* tick, first statement: pool_.clear()
CallClear(a) ==
    /\ NoneUndefined
    /\ calls[a].pc = "idle"
    /\ pool_' = NodePool_clear(pool_)
    /\ calls' = [ b \in Callers |->
                    IF b = a
                    THEN [ calls[a] EXCEPT !.pc = "cleared",
                                           !.overlapped = InProgress(calls[Other(a)]) ]
                    ELSE ClearedUnder(calls[b], NodePool_clear(pool_)) ]
    /\ UNCHANGED sorted_

\* tick up to cells.clear(): the early return, else the clusters map
CallCluster(a) ==
    /\ NoneUndefined
    /\ calls[a].pc = "cleared"
    /\ IF calls[a].cells = {}
       THEN calls' = [ calls EXCEPT ![a].pc = "returned" ]
       ELSE \E kord \in KeyOrders(calls[a].cells) :
              calls' = [ calls EXCEPT ![a].pc = "clustered",
                                      ![a].clusters = Clusters(calls[a].cells, kord),
                                      ![a].cells = {} ]
    /\ UNCHANGED << pool_, sorted_ >>

\* step_cluster, first statement: sorted_.build(cells.begin(), cells.end())
CallSort(a) ==
    /\ NoneUndefined
    /\ calls[a].pc = "clustered"
    /\ \E c \in calls[a].clusters :
         /\ sorted_' = SortedCells_build(SetToSortedSeq(c))
         /\ calls' = [ calls EXCEPT ![a].pc = "sorted", ![a].cluster = c ]
    /\ UNCHANGED pool_

\* step_cluster from the bounding box to the last expand
CallBuild(a) ==
    /\ NoneUndefined
    /\ calls[a].pc = "sorted"
    /\ LET t == ClusterRoot(pool_, sorted_, ClusterSquare(calls[a].cluster))
       IN  /\ pool_' = t.p
           /\ calls' = [ calls EXCEPT ![a].pc = "rooted",
                                      ![a].root = [ n |-> t.n, ox |-> t.ox, oy |-> t.oy ],
                                      ![a].cleared = FALSE,
                                      ![a].lost = FALSE ]
    /\ UNCHANGED sorted_

\* step_cluster from slow_step(root) on, and the inserts of tick. A root that
\* is no node of the arena is a read of freed or reused memory: the call has
\* no defined behaviour from here.
CallStep(a) ==
    /\ NoneUndefined
    /\ calls[a].pc = "rooted"
    /\ IF calls[a].lost
       THEN /\ calls' = [ calls EXCEPT ![a].pc = "undefined",
                                       ![a].read = IF Discarded(calls[a].root, pool_)
                                                   THEN "discarded" ELSE "foreign" ]
            /\ UNCHANGED pool_
       ELSE LET c == calls[a]
                r == StepRoot([ p |-> pool_, n |-> c.root.n, ox |-> c.root.ox,
                                oy |-> c.root.oy ], sorted_)
            IN  /\ pool_' = r.p
                /\ calls' = [ calls EXCEPT ![a].cells = @ \cup r.cells,
                                           ![a].clusters = @ \ { c.cluster },
                                           ![a].pc = IF c.clusters = { c.cluster }
                                                     THEN "returned" ELSE "clustered" ]
    /\ UNCHANGED sorted_

InitOverlap ==
    /\ status = "running"
    /\ engine = Hashlife
    /\ initial_cells = {}
    /\ ticks = 0
    /\ i = 0
    /\ live_cells_ = {}
    /\ results = << >>
    /\ all_match = TRUE
    /\ tick_input = {}
    /\ EnginesConstructed
    /\ text = << >>
    /\ thrown = "none"
    /\ others = << >>
    /\ generation = 0
    /\ calls \in { [ a \in Callers |-> Call(IF a = 1 THEN S ELSE T) ] :
                   S \in CallInputs, T \in CallInputs }

OverlapUnchanged ==
    UNCHANGED << initial_cells, ticks, engine, i, live_cells_, results, all_match, status,
                 tick_input, hashtableVars, sortedVars, hl_pc, clusters, cluster_root,
                 ub, text, thrown, others, generation >>

NextOverlap ==
    \/ \E a \in Callers : CallClear(a) /\ OverlapUnchanged
    \/ \E a \in Callers : CallCluster(a) /\ OverlapUnchanged
    \/ \E a \in Callers : CallSort(a) /\ OverlapUnchanged
    \/ \E a \in Callers : CallBuild(a) /\ OverlapUnchanged
    \/ \E a \in Callers : CallStep(a) /\ OverlapUnchanged

SpecOverlap == InitOverlap /\ [][NextOverlap]_vars

\* ------------------------------------------- GameOfLife: moves between objects
\* Two GameOfLife objects a = others[1] and b = others[2] of one program, and
\* the operations of the class applied to them in any order.
MaxObjectAge == 2

Objects == 1..2

\* what std::move leaves in the cell set it moved from: a valid set the
\* standard does not specify, empty or with its cells
MovedFromCells(cells) == { {}, cells }

\* GameOfLife(GameOfLife&& other) and operator=(GameOfLife&&): the cells and
\* the engine pointer are moved, the engine pointer of other is left null
GameOfLife_move(other, left) ==
    [ to   |-> Game(other.live_cells_, other.engine_, other.age),
      from |-> Game(left, NullEngine, other.age) ]

\* the objects the constructors and parse make
ConstructedGames ==
    { Game(P, create_engine(e), 0) : P \in { {}, blinker_h, block }, e \in 1..NumEngines }

InitMove ==
    /\ status = "objects"
    /\ engine = Hashtable
    /\ initial_cells = {}
    /\ ticks = 0
    /\ i = 0
    /\ live_cells_ = {}
    /\ results = << >>
    /\ all_match = TRUE
    /\ tick_input = {}
    /\ EnginesConstructed
    /\ text = << >>
    /\ thrown = "none"
    /\ calls = NoCalls
    /\ generation = 0
    /\ others \in { << g, Game({}, create_engine(Hashtable), 0) >> : g \in ConstructedGames }

MoveUnchanged ==
    UNCHANGED << initial_cells, ticks, engine, i, live_cells_, results, all_match,
                 tick_input, hashtableVars, sortedVars, hashlifeVars, ub, text, calls,
                 generation >>

\* others[k] = GameOfLife(cells, engine), or = GameOfLife::parse(input, engine)
ObjectConstruct(k) ==
    /\ status = "objects"
    /\ \E g \in ConstructedGames : others' = [ others EXCEPT ![k] = g ]
    /\ thrown' = "none"
    /\ UNCHANGED status

\* others[k] = others[j]
ObjectCopy(j, k) ==
    /\ status = "objects"
    /\ j # k
    /\ others' = [ others EXCEPT ![k] = GameOfLife_copy(others[j]) ]
    /\ thrown' = "none"
    /\ UNCHANGED status

\* others[k] = std::move(others[j])
ObjectMove(j, k) ==
    /\ status = "objects"
    /\ j # k
    /\ \E left \in MovedFromCells(others[j].live_cells_) :
         LET m == GameOfLife_move(others[j], left)
         IN  others' = [ others EXCEPT ![k] = m.to, ![j] = m.from ]
    /\ thrown' = "none"
    /\ UNCHANGED status

\* others[j].tick(): engine_->tick(live_cells_); with a null engine_ the call
\* goes through a null pointer and the program stops
ObjectTick(j) ==
    /\ status = "objects"
    /\ others[j].age < MaxObjectAge
    /\ IF others[j].engine_ = NullEngine
       THEN /\ status' = "crashed"
            /\ UNCHANGED others
       ELSE /\ others' = [ others EXCEPT ![j] =
                             GameOfLife_tick(others[j], Ordered(others[j].live_cells_, FALSE),
                                 Ordered({ ChunkKey(c) : c \in others[j].live_cells_ }, FALSE)) ]
            /\ UNCHANGED status
    /\ thrown' = "none"

\* others[j].run(n): the check of the argument, then n calls of tick
ObjectRun(j) ==
    /\ status = "objects"
    /\ \E n \in -1..0 :
         IF GameOfLife_run_rejects(n)
         THEN thrown' = "invalid_argument"
         ELSE thrown' = "none"
    /\ UNCHANGED << others, status >>

NextMove ==
    \/ \E k \in Objects : ObjectConstruct(k) /\ MoveUnchanged
    \/ \E j \in Objects, k \in Objects : ObjectCopy(j, k) /\ MoveUnchanged
    \/ \E j \in Objects, k \in Objects : ObjectMove(j, k) /\ MoveUnchanged
    \/ \E j \in Objects : ObjectTick(j) /\ MoveUnchanged
    \/ \E j \in Objects : ObjectRun(j) /\ MoveUnchanged

SpecMove == InitMove /\ [][NextMove]_vars

\* =================================================================== claims
\* a tick() call of the current game has returned normally; tick_input is
\* the set it was given and live_cells_ the set it left
TickDone == status \in { "running", "done" } /\ i > 0 /\ hl_pc = "idle"

\* the engine of the current game (of the last one once the loop is over)
LastEngine == IF engine > NumEngines THEN NumEngines ELSE engine

InRange(c) == ~Overflows(X(c)) /\ ~Overflows(Y(c))
AtLimit(c) == would_overflow(X(c), Y(c))
Adjacent(c, d) == c # d /\ X(c) - X(d) \in -1..1 /\ Y(c) - Y(d) \in -1..1
Chebyshev(c, d) == Max2(Max2(X(c) - X(d), X(d) - X(c)), Max2(Y(c) - Y(d), Y(d) - Y(c)))

\* Conway's rule on the grid of representable cells
ConwayRule(S) ==
    LET cand == { d \in UNION { { Cell(X(c) + dx, Y(c) + dy) : dx \in -1..1, dy \in -1..1 }
                                : c \in S } : InRange(d) }
        n(c) == Cardinality({ d \in S : Adjacent(c, d) })
    IN  { c \in cand : n(c) = 3 \/ (n(c) = 2 /\ c \in S) }

\* one tick of a newly constructed engine e on the set S, iterated in
\* ascending order
FreshTick(e, S) ==
    IF e = Hashtable
    THEN HashtableEngine_tick(SetToSortedSeq(S), S, EmptyMap, {}).cells
    ELSE IF e = Sorted
    THEN SortedVectorEngine_tick(SetToSortedSeq(S), S, << >>, << >>).cells
    ELSE HashLifeEngine_tick(NodePool_new, S,
             SetOfSetsToSeq(Clusters(S, SetToSortedSeq({ ChunkKey(c) : c \in S })))).cells

\* C1: one tick of any engine returns exactly the cells with three alive
\* neighbours, or with two and alive themselves.  Stated for the alive-sets
\* that hold no cell at a coordinate limit, where the rule and the engines'
\* skipping of limit cells cannot differ.
C1_TickIsLifeRule ==
    (TickDone /\ \A c \in tick_input : ~AtLimit(c))
        => live_cells_ = ConwayRule(tick_input)

\* C2: after the same number of ticks from the same set the hashtable, the
\* sorted and the hashlife game hold equal cell sets.
C2_EnginesAgree ==
    status = "done" => (all_match /\ \A k \in 1..Len(results) : results[k] = results[1])

\* C3: no cell at a coordinate limit is in the result of a tick, and no tick
\* crashes.
C3_LimitCellsDie ==
    /\ status # "crashed"
    /\ TickDone => \A c \in live_cells_ : ~AtLimit(c)

\* C4: no tick of any engine executes a signed computation whose result does
\* not fit the coordinate type.
C4_NoSignedOverflow == ub = FALSE

\* C5 as claimed: a tick that fails leaves the alive-set as it was at entry.
C5_NoMutationOnFailure == status = "failed" => live_cells_ = tick_input

\* C5 amended: a failing tick of the hashtable engine leaves the alive-set as
\* it was; a failing tick of the sorted or hashlife engine leaves it as it
\* was or holding part of the result the completed tick would have produced.
C5_FailureGuarantee ==
    status = "failed" =>
        IF engine = Hashtable THEN live_cells_ = tick_input
        ELSE \/ live_cells_ = tick_input
             \/ live_cells_ \subseteq FreshTick(engine, tick_input)

C5_Witness ==
    /\ status = "failed" /\ engine = Hashtable
    /\ live_cells_ = tick_input
    /\ new_cells_buffer_ # {} /\ new_cells_buffer_ # live_cells_

\* C6: one tick of the sorted engine returns the same set as one tick of the
\* hashtable engine, also for sets with cells at a coordinate limit.
C6_SortedMatchesHashtable ==
    (TickDone /\ engine = Sorted) => live_cells_ = FreshTick(Hashtable, tick_input)

C6_Witness ==
    /\ TickDone /\ engine = Sorted
    /\ live_cells_ # {}
    /\ \E c \in tick_input : AtLimit(c)

\* C7: when every cell of A is further than 2 from every cell of B, a tick on
\* the union of A and B returns the union of the ticks on A and on B.
Separated(A, B) == \A a \in A, b \in B : Chebyshev(a, b) > 2

C7_Additive ==
    TickDone =>
        \A A \in SUBSET tick_input :
            LET B == tick_input \ A
            IN  (A # {} /\ B # {} /\ Separated(A, B))
                    => live_cells_ = FreshTick(LastEngine, A) \cup FreshTick(LastEngine, B)

\* C8: the result of a tick depends only on the alive-set it is given, not on
\* the iteration order of the set nor on earlier ticks of the same engine.
C8_ResultDependsOnInputOnly ==
    TickDone => live_cells_ = FreshTick(LastEngine, tick_input)

C8_Witness ==
    /\ TickDone /\ engine = Hashtable /\ i >= 2
    /\ live_cells_ # {} /\ live_cells_ # tick_input
    /\ new_cells_buffer_ # {}

\* C9: the pool never holds two distinct non-leaf nodes with the same four
\* children, and the table maps every such node's children to it.
NodeIds == 1..Len(pool_.nodes)
ChildrenOf(n) == QuadNodeKey(pool_.nodes[n].nw, pool_.nodes[n].ne,
                             pool_.nodes[n].sw, pool_.nodes[n].se)

C9_HashConsed ==
    LET inner == { a \in NodeIds : pool_.nodes[a].level > 0 }
    IN  /\ Cardinality({ ChildrenOf(a) : a \in inner }) = Cardinality(inner)
        /\ \A a \in inner : /\ ChildrenOf(a) \in DOMAIN pool_.canon_
                             /\ pool_.canon_[ChildrenOf(a)] = a

\* a non-empty square that two different parents share
C9_Witness ==
    \E n \in NodeIds :
        /\ pool_.nodes[n].level > 0 /\ pool_.nodes[n].population > 0
        /\ \E a, b \in NodeIds :
             /\ a # b
             /\ n \in { pool_.nodes[a].nw, pool_.nodes[a].ne, pool_.nodes[a].sw, pool_.nodes[a].se }
             /\ n \in { pool_.nodes[b].nw, pool_.nodes[b].ne, pool_.nodes[b].sw, pool_.nodes[b].se }

\* C10: right after the pool reset that opens a hashlife tick the pool holds
\* the two leaves only, with no memoized result, and the table and the
\* all-dead cache are empty.
C10_PoolResetAtTickStart ==
    hl_pc = "cleared" =>
        /\ Len(pool_.nodes) = 2
        /\ pool_.dead_cell_ # pool_.alive_cell_
        /\ pool_.nodes[pool_.dead_cell_] = QuadNode(0, 0, NullNode, NullNode, NullNode, NullNode)
        /\ pool_.nodes[pool_.alive_cell_] = QuadNode(0, 1, NullNode, NullNode, NullNode, NullNode)
        /\ pool_.canon_ = << >>
        /\ pool_.empty_cache_ = << >>

\* the reset that opens a second tick, after a tick that built a tree
C10_Witness ==
    /\ hl_pc = "cleared" /\ i >= 1
    /\ live_cells_ # {}
    /\ Len(pool_.nodes) = 2


\* two strings that differ at most in the case of their letters
SameLetter(c, d) == c = d \/ \E k \in 1..Len(Upper) : { c, d } = { Upper[k], Lower[k] }
EqualIgnoringCase(s, t) == Len(s) = Len(t) /\ \A k \in 1..Len(s) : SameLetter(s[k], t[k])
EngineNames == << hashtable_name, sorted_name, hashlife_name >>

\* C11: once the --engine argument is handled, a name that equals one of the
\* three engine names up to the case of its letters has selected that engine
\* and nothing was thrown; any other string has thrown invalid_argument, main
\* has returned, and no game is ever constructed afterwards
C11_EngineNameParsed ==
    status # "args" =>
      /\ \A e \in 1..NumEngines :
           EqualIgnoringCase(text, EngineNames[e])
             => thrown = "none" /\ engine = e /\ status \in { "parsed", "ready" }
      /\ (\A e \in 1..NumEngines : ~EqualIgnoringCase(text, EngineNames[e]))
             => thrown = "invalid_argument" /\ status = "exit"

\* a name in mixed case was accepted and the game was made with its engine
C11_Witness ==
    /\ status = "ready"
    /\ engine = Hashlife
    /\ text # hashlife_name
    /\ \E k \in 1..Len(text) : IsIn(text[k], Upper)


\* what n ticks of newly constructed engines of type e leave of the set S
RECURSIVE TicksFrom(_, _, _)
TicksFrom(e, S, n) == IF n = 0 THEN S ELSE TicksFrom(e, FreshTick(e, S), n - 1)

\* the ticks the current game has made since initial_cells
Age == IF status = "running" THEN generation - ticks + i ELSE generation

\* C12: run never loops over a negative count: run(n) with n < 0 throws
\* invalid_argument and changes nothing; the calls run(n) with n >= 0 that
\* have returned have together made exactly the ticks they were asked for, so
\* the cells are those of one run over the sum of the counts (run(0) adds
\* nothing), and during a call the cells are those after i more ticks
C12_RunTicksExactly ==
    /\ ticks >= 0
    /\ status = "running" => i <= ticks
    /\ (status \in { "ready", "running" } /\ hl_pc = "idle")
         => live_cells_ = TicksFrom(engine, initial_cells, Age)
    /\ thrown = "invalid_argument" => status = "ready"

\* after two calls that made ticks, a call with a negative count has thrown
C12_Witness ==
    /\ thrown = "invalid_argument"
    /\ generation > ticks
    /\ ticks > 0
    /\ live_cells_ # initial_cells


\* C13: a copy of a game has the engine type of the original (clone() makes
\* an engine of its own class) and, made at the same age, the same cells;
\* afterwards each of the two games holds what its own ticks alone make of
\* initial_cells, whatever the other one has done in between
C13_CopyIsIndependent ==
    others # << >> =>
      /\ others[1].engine_.type = engine
      /\ others[1].live_cells_ = TicksFrom(engine, initial_cells, others[1].age)
      /\ hl_pc = "idle" => live_cells_ = TicksFrom(engine, initial_cells, Age)
      /\ (hl_pc = "idle" /\ others[1].age = Age) => others[1].live_cells_ = live_cells_

\* a hashlife game and its copy have both ticked since the copy was made and
\* have come to different cells
C13_Witness ==
    /\ others # << >>
    /\ engine = Hashlife
    /\ hl_pc = "idle"
    /\ others[1].age > 0
    /\ Age > others[1].age
    /\ others[1].live_cells_ \notin { live_cells_, initial_cells }
    /\ others[1].engine_.pool_ # NodePool_new


\* C14: a game that started as the horizontal blinker, at any of the offsets
\* and with any engine, holds the vertical blinker after an odd number of
\* ticks and the horizontal one after an even number
C14_BlinkerPeriod2 ==
    \A a \in Offsets :
      (initial_cells = Translate(blinker_h, a) /\ hl_pc = "idle")
        => live_cells_ = Translate(IF Age % 2 = 1 THEN blinker_v ELSE blinker_h, a)

\* the hashlife game of a blinker that lies across a chunk border has made
\* three ticks in two calls of run
C14_Witness ==
    /\ initial_cells = Translate(blinker_h, Cell(CHUNK_SIZE - 2, CHUNK_SIZE - 1))
    /\ engine = Hashlife
    /\ status = "ready"
    /\ generation = 3
    /\ ticks < 3


\* C15: a game that started as the 2x2 block, with any engine, holds exactly
\* the block after every tick
C15_BlockIsFixed ==
    (initial_cells = block /\ hl_pc = "idle") => live_cells_ = block

\* the sorted game of the block has made four ticks
C15_Witness ==
    /\ initial_cells = block
    /\ engine = Sorted
    /\ status = "ready"
    /\ generation = MaxAdvances
    /\ candidates_ # << >>

\* C16: a game that started as the glider, with any engine, holds the glider
\* moved by (+1,+1) after exactly four ticks, and no translate of the glider
\* along the diagonal after one, two or three ticks; the same from the
\* glider moved by (+1,+1), which makes (+2,+2) after eight ticks, and from
\* the glider at another place
C16_GliderMovesDiagonally ==
    /\ (initial_cells = glider /\ hl_pc = "idle" /\ Age = 4)
         => live_cells_ = { Cell(1, 2), Cell(2, 3), Cell(3, 1), Cell(3, 2), Cell(3, 3) }
    /\ \A a \in Offsets \cup { Cell(1, 1) } :
         (initial_cells = Translate(glider, a) /\ hl_pc = "idle") =>
           /\ Age = 0 => live_cells_ = Translate(glider, a)
           /\ Age = 4 => live_cells_ = Translate(glider, Cell(X(a) + 1, Y(a) + 1))
           /\ Age \in 1..3 => \A k \in -4..4 :
                                live_cells_ # Translate(glider, Cell(X(a) + k, Y(a) + k))

\* the hashlife game of the glider has made four ticks
C16_Witness ==
    /\ initial_cells = glider
    /\ engine = Hashlife
    /\ status = "ready"
    /\ generation = 4
    /\ pool_ # NodePool_new


\* C17: a tick that was given fewer than three cells (none, one, or two that
\* are adjacent or not), by any engine and at any place, has returned the
\* empty set; so the empty set stays empty
C17_FewerThanThreeDie ==
    (TickDone /\ Cardinality(tick_input) < 3) => live_cells_ = {}

\* the hashlife engine has ticked on two cells that are not adjacent
C17_Witness ==
    /\ TickDone
    /\ LastEngine = Hashlife
    /\ Cardinality(tick_input) = 2
    /\ \A c, d \in tick_input : ~Adjacent(c, d)


\* the format of the text, said without the parser's loop
Whitespace == { " ", "\t", "\r" }
AllIn(s, chars) == \A k \in 1..Len(s) : s[k] \in chars
NonBlankLines(s) == SelectSeq(getline(s, 1, << >>), LAMBDA l : ~AllIn(l, Whitespace))

RECURSIVE Magnitude(_)
Magnitude(s) == IF s = << >> THEN 0
                ELSE 10 * Magnitude(SubSeq(s, 1, Len(s) - 1)) + IndexOf(s[Len(s)], Digits) - 1
Unsigned(s) == IF s # << >> /\ s[1] = "-" THEN Tail(s) ELSE s
ValueOf(s) == IF s # << >> /\ s[1] = "-" THEN -Magnitude(Tail(s)) ELSE Magnitude(s)

\* a decimal integer of the coordinate type: digits, a '-' before them or not
IsInteger(s) ==
    /\ Unsigned(s) # << >>
    /\ \A k \in 1..Len(Unsigned(s)) : IsIn(Unsigned(s)[k], Digits)
    /\ ValueOf(s) \in MinVal..MaxVal

\* the line is blanks up to a, an integer up to b, blanks up to c, an
\* integer up to d, and whitespace from there on
SplitsAs(line, a, b, c, d) ==
    /\ a <= b /\ b < c /\ c <= d
    /\ AllIn(SubSeq(line, 1, a), { " ", "\t" })
    /\ IsInteger(SubSeq(line, a + 1, b))
    /\ AllIn(SubSeq(line, b + 1, c), { " ", "\t" })
    /\ IsInteger(SubSeq(line, c + 1, d))
    /\ AllIn(SubSeq(line, d + 1, Len(line)), Whitespace)
Splits(line, leads) ==
    { q \in leads \X (0..Len(line)) \X (0..Len(line)) \X (0..Len(line)) :
        SplitsAs(line, q[1], q[2], q[3], q[4]) }
CellOf(line) ==
    LET q == CHOOSE q \in Splits(line, 0..Len(line)) : TRUE
    IN  Cell(ValueOf(SubSeq(line, q[1] + 1, q[2])), ValueOf(SubSeq(line, q[3] + 1, q[4])))

\* the first non-blank line is the header followed by whitespace at most
HeaderLine(line) ==
    /\ Len(line) >= Len(header)
    /\ SubSeq(line, 1, Len(header)) = header
    /\ AllIn(SubSeq(line, Len(header) + 1, Len(line)), Whitespace)

\* what parse has done with the text, given the texts it should accept
ParsedIff(accepted) ==
    status # "args" =>
      IF accepted
      THEN /\ status = "ready"
           /\ thrown = "none"
           /\ live_cells_ = { CellOf(NonBlankLines(text)[k]) : k \in 2..Len(NonBlankLines(text)) }
      ELSE /\ status = "exit"
           /\ thrown = "runtime_error"
           /\ live_cells_ = {}

\* C18 as stated: parse succeeds exactly when the first non-blank line is the
\* characters '#Life 1.06' and nothing else, and every later non-blank line
\* is an integer, spaces or tabs, an integer, and whitespace at most; any
\* other text makes it throw runtime_error and leaves no game
C18_ParseAcceptsExactHeader ==
    ParsedIff(/\ NonBlankLines(text) # << >>
              /\ NonBlankLines(text)[1] = header
              /\ \A k \in 2..Len(NonBlankLines(text)) : Splits(NonBlankLines(text)[k], {0}) # {})

\* C18 amended: parse succeeds exactly when the first non-blank line is
\* '#Life 1.06' followed by whitespace at most (nothing before it), and every
\* later non-blank line is, after spaces or tabs if any, an integer of the
\* coordinate type written as digits with or without a '-' (no '+'), one or
\* more spaces or tabs, such an integer again, and whitespace at most; the
\* game then holds the cells of these lines (none for a header alone); any
\* other text makes it throw runtime_error and leaves no game
C18_ParseAccepts ==
    ParsedIff(/\ NonBlankLines(text) # << >>
              /\ HeaderLine(NonBlankLines(text)[1])
              /\ \A k \in 2..Len(NonBlankLines(text)) :
                   Splits(NonBlankLines(text)[k], 0..Len(NonBlankLines(text)[k])) # {})

\* a text whose header line has whitespace after the header and whose
\* coordinate line holds the least integer of the type has been parsed
C18_Witness ==
    /\ status = "ready"
    /\ \E c \in live_cells_ : X(c) = MinVal
    /\ NonBlankLines(text)[1] # header


\* the alive leaves below node when its north-west corner is the cell (x, y)
\* of an unbounded grid
RECURSIVE Leaves(_, _, _, _)
Leaves(p, node, x, y) ==
    LET nd   == p.nodes[node]
        half == IF nd.level = 0 THEN 0 ELSE 2 ^ (nd.level - 1)
    IN  IF nd.population = 0 THEN {}
        ELSE IF nd.level = 0 THEN { Cell(x, y) }
        ELSE Leaves(p, nd.nw, x, y) \cup Leaves(p, nd.ne, x + half, y)
               \cup Leaves(p, nd.sw, x, y + half) \cup Leaves(p, nd.se, x + half, y + half)

\* one generation of Conway's rule on the unbounded grid
OneGeneration(S) ==
    LET cand == UNION { { Cell(X(c) + dx, Y(c) + dy) : dx \in -1..1, dy \in -1..1 } : c \in S }
        n(c) == Cardinality({ d \in S : Adjacent(c, d) })
    IN  { c \in cand : n(c) = 3 \/ (n(c) = 2 /\ c \in S) }

\* the cells of S in the centre square of a node of the level k whose corner
\* is (0, 0)
InCentre(S, k) ==
    { c \in S : /\ X(c) >= 2 ^ (k - 2) /\ X(c) < 3 * 2 ^ (k - 2)
                /\ Y(c) >= 2 ^ (k - 2) /\ Y(c) < 3 * 2 ^ (k - 2) }

\* the nodes slow_step has been called on
Stepped == { n \in NodeIds : pool_.nodes[n].level >= 2 /\ pool_.nodes[n].step1_result # NullNode }

\* C19: the node slow_step has returned for a node of level k >= 2 has level
\* k - 1, and its leaves are the centre square of the node after exactly one
\* generation of the rule on the leaves of the node
C19_SlowStepIsOneGeneration ==
    \A n \in Stepped :
      /\ pool_.nodes[pool_.nodes[n].step1_result].level = pool_.nodes[n].level - 1
      /\ Leaves(pool_, pool_.nodes[n].step1_result,
                2 ^ (pool_.nodes[n].level - 2), 2 ^ (pool_.nodes[n].level - 2))
           = InCentre(OneGeneration(Leaves(pool_, n, 0, 0)), pool_.nodes[n].level)

\* slow_step has returned for a node of level 4 or more whose centre is not
\* the same after one generation, after two and after four
C19_Witness ==
    \E n \in Stepped :
      LET k  == pool_.nodes[n].level
          g1 == OneGeneration(Leaves(pool_, n, 0, 0))
          g2 == OneGeneration(g1)
          g4 == OneGeneration(OneGeneration(g2))
      IN  /\ k >= 4
          /\ InCentre(g1, k) # {}
          /\ InCentre(g1, k) # InCentre(g2, k)
          /\ InCentre(g1, k) # InCentre(g4, k)


\* C20: between two clears of the pool every node has had its step1_result
\* assigned at most once, and exactly once if slow_step has been called on
\* it at all; the field is set exactly when it has been assigned, so no call
\* after the first has run the body of slow_step or changed the field
C20_StepResultWrittenOnce ==
    \A n \in NodeIds :
      /\ pool_.nodes[n].step1_writes <= 1
      /\ pool_.nodes[n].slow_step_calls > 0 <=> pool_.nodes[n].step1_writes = 1
      /\ pool_.nodes[n].step1_writes = 1 <=> pool_.nodes[n].step1_result # NullNode

\* slow_step has been called more than once on a node that holds alive cells
C20_Witness ==
    \E n \in NodeIds :
      /\ pool_.nodes[n].slow_step_calls > 1
      /\ pool_.nodes[n].population > 0
      /\ pool_.nodes[n].step1_writes = 1


\* C21: every node of the pool is well formed: a node of level 0 has no
\* children and population 0 or 1; a node of level k > 0 has four children,
\* all nodes of the pool of level k - 1, and its population is the sum of
\* the populations of the four
C21_NodesWellFormed ==
    \A n \in NodeIds :
      LET nd   == pool_.nodes[n]
          kids == << nd.nw, nd.ne, nd.sw, nd.se >>
      IN  IF nd.level = 0
          THEN /\ \A k \in 1..4 : kids[k] = NullNode
               /\ nd.population \in { 0, 1 }
          ELSE /\ nd.level > 0
               /\ \A k \in 1..4 : /\ kids[k] \in NodeIds
                                  /\ pool_.nodes[kids[k]].level = nd.level - 1
               /\ nd.population = pool_.nodes[kids[1]].population
                                    + pool_.nodes[kids[2]].population
                                    + pool_.nodes[kids[3]].population
                                    + pool_.nodes[kids[4]].population

\* the pool holds a node of level 4 or more with three or more alive cells
\* that lie in more than one of its quadrants
C21_Witness ==
    \E n \in NodeIds :
      /\ pool_.nodes[n].level >= 4
      /\ pool_.nodes[n].population >= 3
      /\ \E k \in { pool_.nodes[n].nw, pool_.nodes[n].ne, pool_.nodes[n].sw, pool_.nodes[n].se } :
           /\ pool_.nodes[k].population > 0
           /\ pool_.nodes[k].population < pool_.nodes[n].population


\* the cluster that the latest step_cluster was given (sorted_ was built
\* from it) and the level of the root it handed to slow_step
SteppedCluster == SeqToSet(sorted_)
RootLevel == pool_.nodes[cluster_root.n].level

\* the cell c and its eight neighbours lie in the centre half-size square
\* of the root, whose corner is the tracked origin
InsideCentre(c) ==
    LET quarter == 2 ^ (RootLevel - 2)
    IN  \A dx \in -1..1, dy \in -1..1 :
          /\ X(c) + dx >= cluster_root.ox + quarter
          /\ X(c) + dx < cluster_root.ox + 3 * quarter
          /\ Y(c) + dy >= cluster_root.oy + quarter
          /\ Y(c) + dy < cluster_root.oy + 3 * quarter

\* C22: when step_cluster has called slow_step, the root has level 4 or
\* more, its alive leaves are the cells of the cluster at their places from
\* the tracked origin, and every cell of the cluster lies with its eight
\* neighbours inside the centre half-size square that slow_step returns
C22_ClusterInsideCentre ==
    cluster_root.n # NullNode =>
      /\ RootLevel >= 4
      /\ Leaves(pool_, cluster_root.n, cluster_root.ox, cluster_root.oy) = SteppedCluster
      /\ \A c \in SteppedCluster : InsideCentre(c)


\* the 64-unit bucket of a cell: the square of side CHUNK_SIZE it lies in
Bucket(c) == << X(c) \div CHUNK_SIZE, Y(c) \div CHUNK_SIZE >>
BucketsTouch(c, d) ==
    /\ Bucket(c)[1] - Bucket(d)[1] \in -1..1
    /\ Bucket(c)[2] - Bucket(d)[2] \in -1..1
ClusterOf(c) == CHOOSE a \in clusters : c \in a

\* the clusters map is complete: no cluster has been stepped yet
Clustered == hl_pc = "clusters" /\ cluster_root = NoRoot

\* C23: the clusters are a partition of the cells the tick was given: no
\* cluster is empty, every cell is in exactly one; two cells whose buckets
\* are equal or 8-adjacent are in the same cluster; two cells of different
\* clusters differ by more than CHUNK_SIZE on at least one axis
C23_ClustersPartition ==
    Clustered =>
      /\ {} \notin clusters
      /\ UNION clusters = tick_input
      /\ \A a, b \in clusters : a # b => a \cap b = {}
      /\ \A c, d \in tick_input :
           /\ BucketsTouch(c, d) => ClusterOf(c) = ClusterOf(d)
           /\ ClusterOf(c) # ClusterOf(d)
                => \/ X(c) - X(d) > CHUNK_SIZE \/ X(d) - X(c) > CHUNK_SIZE
                   \/ Y(c) - Y(d) > CHUNK_SIZE \/ Y(d) - Y(c) > CHUNK_SIZE


\* a square handed to build_recursive: corner (x, y), side 2^level
MaxBuildLevel == 4
MaxExpands == 3
Covers(sq, S) ==
    \A c \in S : /\ sq.x <= X(c) /\ X(c) < sq.x + 2 ^ sq.level
                 /\ sq.y <= Y(c) /\ Y(c) < sq.y + 2 ^ sq.level

\* the squares of a level up to MaxBuildLevel that cover S, with the corner
\* at the least coordinates of S or one cell before them on both axes
Squares(S) ==
    { sq \in { [ x |-> X(a) - d, y |-> Y(b) - d, level |-> l ] :
                 a \in S, b \in S, d \in 0..1, l \in 1..MaxBuildLevel } :
        Covers(sq, S) }

\* the square after k expansions lies within the coordinate range
AwayFromLimits(sq, k) ==
    LET moved == 2 ^ (sq.level - 1) * (2 ^ k - 1)
    IN  /\ sq.x - moved >= MinVal /\ sq.x - moved + 2 ^ (sq.level + k) <= MaxVal
        /\ sq.y - moved >= MinVal /\ sq.y - moved + 2 ^ (sq.level + k) <= MaxVal

RECURSIVE Expanded(_, _)
Expanded(t, k) == IF k = 0 THEN t ELSE Expanded(HashLifeEngine_expand(t), k - 1)

\* build_recursive of the square, k times expand, flatten at the origin
\* that expand has tracked
Flat(t) == [ flat |-> HashLifeEngine_flatten(t.p, t.n, t.ox, t.oy), ub |-> t.p.ub ]
RoundTrip(S, sq, k) ==
    Flat(Expanded(Root(HashLifeEngine_build_recursive(NodePool_new,
                           SortedCells_build(SetToSortedSeq(S)), sq.x, sq.y, sq.level),
                       sq.x, sq.y), k))

\* C24: for every cluster the tick has formed, every square that covers it
\* and every number k of expansions after which the square still lies within
\* the coordinate range: the tree built for the square, expanded k times and
\* flattened at the tracked origin gives the cells of the cluster, each once
\* and at its place, and no computation on the way overflows
C24_BuildExpandFlatten ==
    Clustered =>
      \A S \in clusters : \A sq \in Squares(S) : \A k \in 0..MaxExpands :
        AwayFromLimits(sq, k)
          => RoundTrip(S, sq, k) = [ flat |-> [ cells |-> S, ub |-> FALSE ], ub |-> FALSE ]

\* a cluster of four or more cells in three or more columns is covered by a
\* square that can be expanded MaxExpands times
C24_Witness ==
    /\ Clustered
    /\ \E S \in clusters :
         /\ Cardinality(S) >= 4
         /\ Cardinality({ X(c) : c \in S }) >= 3
         /\ \E sq \in Squares(S) :
              /\ AwayFromLimits(sq, MaxExpands)
              /\ sq.level < MaxBuildLevel
              /\ RoundTrip(S, sq, MaxExpands).flat.cells = S


\* C25: a hashlife tick that was given the empty set has returned the empty
\* set and has built nothing: the pool holds the two leaves only, and the
\* table of canonical nodes and the all-dead cache are empty
C25_EmptyTickBuildsNothing ==
    (TickDone /\ LastEngine = Hashlife /\ tick_input = {}) =>
      /\ live_cells_ = {}
      /\ \A n \in NodeIds : pool_.nodes[n].level = 0
      /\ Len(pool_.nodes) = 2
      /\ pool_.canon_ = << >>
      /\ pool_.empty_cache_ = << >>
      /\ cluster_root = NoRoot

\* the second tick of a hashlife game whose cells all died in the first
\* tick, which built a tree
C25_Witness ==
    /\ TickDone /\ LastEngine = Hashlife
    /\ i = 2
    /\ initial_cells # {}
    /\ tick_input = {}


\* the alive neighbours of the coordinate d that are not at a limit
CountingNeighbours(d, S) == { c \in S : Adjacent(c, d) /\ ~AtLimit(c) }

\* C26: after a tick of the hashtable engine the count map holds exactly the
\* coordinates with an alive neighbour that is not at a limit, each with the
\* number of those neighbours, a number from 1 to 8; so a cell at a limit
\* has added to no count
C26_CountsAreNeighbourCounts ==
    (TickDone /\ engine = Hashtable) =>
      /\ \A d \in DOMAIN neighbor_count_buffer_ :
           /\ neighbor_count_buffer_[d] = Cardinality(CountingNeighbours(d, tick_input))
           /\ neighbor_count_buffer_[d] \in 1..8
      /\ \A c \in tick_input : \A dx \in -1..1, dy \in -1..1 :
           LET d == Cell(X(c) + dx, Y(c) + dy)
           IN  (d # c /\ ~AtLimit(c)) => d \in DOMAIN neighbor_count_buffer_

\* the hashtable engine has ticked twice; the second set held a cell at a
\* limit beside cells that are not, and a coordinate with three neighbours
C26_Witness ==
    /\ TickDone /\ engine = Hashtable
    /\ i = 2
    /\ \E c \in tick_input : AtLimit(c) /\ \E d \in tick_input : Adjacent(c, d) /\ ~AtLimit(d)
    /\ \E d \in DOMAIN neighbor_count_buffer_ : neighbor_count_buffer_[d] >= 3

\* C27: tick() calls on one HashLifeEngine object are safe only when they do
\* not overlap. A call that ran while no other was in progress returns one
\* generation of its input, and the root it steps is a node of the arena; a
\* root held while the other call runs pool_.clear() is discarded, the call
\* that then steps it has no defined behaviour, and no call ever has undefined
\* behaviour without such an overlap. A call that ran alone finds its own
\* cluster in sorted_. No signed overflow takes part.
C27_OverlappingTicksUnsafe ==
    calls # NoCalls =>
      /\ ~pool_.ub
      /\ \A a \in Callers :
           LET c == calls[a]
           IN  /\ (c.pc = "returned" /\ ~c.overlapped) => c.cells = OneGeneration(c.input)
               /\ (c.pc = "rooted" /\ ~c.cleared) =>
                    /\ c.root.n \in NodeIds
                    /\ pool_.nodes[c.root.n].level >= 4
               /\ (c.pc = "rooted" /\ c.cleared) => c.lost
               /\ (c.pc = "sorted" /\ ~c.overlapped) => SeqToSet(sorted_) = c.cluster
               /\ c.pc = "undefined" => c.overlapped /\ c.cleared

\* a call stepped a root that the other call's clear() had discarded, and
\* found nodes of the other call there; before, a call had returned alone
C27_Witness ==
    /\ calls # NoCalls
    /\ \E a \in Callers : /\ calls[a].pc = "undefined"
                          /\ calls[a].read = "foreign"
                          /\ calls[a].input # {}
                          /\ calls[Other(a)].pc = "rooted"

\* C28: advance commutes with translation. Whenever a tick has returned, and
\* its input S and S + d lie LimitMargin or more inside the coordinate limits,
\* a tick of the same kind of engine on S + d gives the result of the tick on
\* S moved by d. The offsets move a pattern inside its bucket, across bucket
\* borders on both axes, and to negative buckets with another alignment.
LimitMargin == 128

Shifts == { Cell(1, 0), Cell(63, -64), Cell(-130, 3) }

StaysAway(S) ==
    \A c \in S : /\ X(c) >= MinVal + LimitMargin /\ X(c) <= MaxVal - LimitMargin
                 /\ Y(c) >= MinVal + LimitMargin /\ Y(c) <= MaxVal - LimitMargin

Commutes(e, S, T, d) ==
    (StaysAway(S) /\ StaysAway(Translate(S, d)))
        => FreshTick(e, Translate(S, d)) = Translate(T, d)

C28_AdvanceCommutesWithTranslation ==
    TickDone => \A d \in Shifts : Commutes(LastEngine, tick_input, live_cells_, d)

\* a hashlife tick has returned on a set of two clusters away from the
\* limits whose translate by (63, -64) has other buckets
C28_Witness ==
    /\ TickDone
    /\ LastEngine = Hashlife
    /\ live_cells_ # {}
    /\ StaysAway(tick_input)
    /\ StaysAway(Translate(tick_input, Cell(63, -64)))
    /\ \E c \in tick_input, f \in tick_input : X(f) - X(c) > CHUNK_SIZE + CHUNK_SIZE
    /\ { ChunkKey(c) : c \in tick_input }
         # { ChunkKey(c) : c \in Translate(tick_input, Cell(1, 0)) }

\* C29: after any sequence of construction, copy, move, assignment, parse,
\* tick and run, every GameOfLife object holds an engine, and no call of
\* tick() has gone through a null engine pointer.
C29_EveryGameHasEngine ==
    status \in { "objects", "crashed" } =>
      /\ \A j \in DOMAIN others : others[j].engine_ # NullEngine
      /\ status # "crashed"

\* C30: whenever a tick of any engine has returned, every cell of the result
\* is at Chebyshev distance at most 1 from at least two cells of the input,
\* so the bounding box of the result lies within the input's, grown by 1 on
\* each side.
NearCells(c, S) == { d \in S : Chebyshev(c, d) <= 1 }

WithinGrownBox(T, S) ==
    T # {} =>
      /\ S # {}
      /\ \A c \in T : /\ \E d \in S : X(c) >= X(d) - 1
                      /\ \E d \in S : X(c) <= X(d) + 1
                      /\ \E d \in S : Y(c) >= Y(d) - 1
                      /\ \E d \in S : Y(c) <= Y(d) + 1

====
